---- MODULE Spec2Model ----
(***************************************************************************)
(* The protocol transport layer of mcp-sqlite: the JSON-RPC dispatcher     *)
(* (src/jsonrpc), the session registry (src/mcp_session.py) and the        *)
(* Streamable HTTP transport (src/mcp_transport.py, src/server.py).        *)
(*                                                                         *)
(* Conventions.  A Python Optional is a sequence of length 0 (None) or 1.  *)
(* A JSON id is a record [kind, val]: kind is "int" or "str", val is the   *)
(* text of the literal, so that the integer 1 and the string "1" differ    *)
(* in kind only.  A message string is the sequence of the parts an         *)
(* f-string concatenates.  http holds what the last step received or  *)
(* sent over HTTP (NoOutput when nothing): an invariant over http is a     *)
(* statement about every response the server produces.                     *)
(***************************************************************************)
EXTENDS Integers, Sequences, FiniteSets, Bags, TLC

VARIABLES
    methods,      \* JSONRPCHandler.methods: method name -> handler
    tools,        \* MCPHandler.tools and tool_schemas: tool name -> [handler, schema]
    reaper,       \* the session manager's _cleanup_task and the reaper tasks alive
    sessions,     \* MCPSessionManager.sessions: session id -> MCPSession
    detached,     \* MCPSession objects removed from the registry, still referenced by a stream
    uuid_count,   \* number of uuid.uuid4() draws made by create_session
    now,          \* datetime.now(), in ticks
    calls,        \* POST /mcp calls in flight: the bag of the suspended
                  \* handle_post_request frames [request, session]
    streams,      \* GET /mcp streams (event_generator coroutines), each with
                  \* the ids of the events it has emitted
    http          \* what the last step received or sent over HTTP

vars == <<methods, tools, reaper, sessions, detached, uuid_count, now, calls, streams, http>>

-----------------------------------------------------------------------------
(* Bounds *)

MaxSessions == 2    \* create_session calls in one run
MaxTime == 1        \* clock ticks in one run
MaxCalls == 1       \* POST /mcp calls in flight at once
MaxStreams == 1     \* streams open at once
MaxStreamSessions == 1  \* create_session calls in one run of the streaming endpoint
MaxMethods == 2     \* distinct method names registered in one run
MaxEvents == 3      \* event ids allocated in one session
MaxTools == 2       \* distinct tool names registered in one run
MaxIdle == 2        \* clock ticks in one run of the session manager
MaxPushStreams == 2 \* streams open at once on the sessions pushed to
MaxTasks == 2       \* reaper tasks created in one run

-----------------------------------------------------------------------------
(* Python values *)

None == <<>>
Some(v) == <<v>>

\* bool(s) of a str
Truthy(s) == s # ""

\* dict operations
EmptyMap == [x \in {} |-> x]
Put(f, k, v) == [x \in DOMAIN f \cup {k} |-> IF x = k THEN v ELSE f[x]]
Drop(f, keys) == [x \in DOMAIN f \ keys |-> f[x]]

JsonInt(text) == [kind |-> "int", val |-> text]
JsonStr(text) == [kind |-> "str", val |-> text]

\* The ids a client sends: absent, an integer, a string with the same text, another string.
RequestIds == {None, Some(JsonInt("1")), Some(JsonStr("1")), Some(JsonStr("abc"))}

MethodNames == {"initialize", "ping", "tools/list", "tools/call", "x/y"}

\* JSONRPCRequest (params is consumed by the handler, whose outcome is an input here).
JSONRPCRequest(method, id) == [method |-> method, id |-> id]

PARSE_ERROR == -32700
INVALID_REQUEST == -32600
METHOD_NOT_FOUND == -32601
INVALID_PARAMS == -32602
INTERNAL_ERROR == -32603
TOOL_NOT_FOUND == -32001
TOOL_EXECUTION_ERROR == -32002
DATABASE_ERROR == -32003

JSONRPCError(code, message, data) == [code |-> code, message |-> message, data |-> data]

\* The coercion of pydantic 1 for Union[str, int]: the first member that accepts
\* the value wins, so an integer becomes its string.
ValidateIdLeftToRight(id) ==
    IF id = None THEN None ELSE Some(JsonStr(id[1].val))

\* pydantic's validation of a field typed Optional[Union[str, int]] (smart mode):
\* a str stays a str, an int stays an int, None stays None.
ValidateId(id) ==
    IF id = None THEN None
    ELSE IF id[1].kind = "str" THEN Some(JsonStr(id[1].val))
    ELSE Some(JsonInt(id[1].val))

JSONRPCResponse(id, result, error) ==
    [jsonrpc |-> "2.0", id |-> ValidateId(id), result |-> result, error |-> error]

\* JSONRPCError.model_dump(exclude_none=True)
ErrorDump(err) ==
    [k \in {"code", "message"} \cup (IF err.data = None THEN {} ELSE {"data"}) |->
        IF k = "data" THEN err.data[1] ELSE err[k]]

\* JSONRPCResponse.model_dump(exclude_none=True): the fields that are not None.
ModelDump(resp) ==
    [k \in {"jsonrpc"} \cup {f \in {"id", "result", "error"} : resp[f] # None} |->
        IF k = "jsonrpc" THEN resp.jsonrpc
        ELSE IF k = "error" THEN ErrorDump(resp.error[1])
        ELSE resp[k][1]]

-----------------------------------------------------------------------------
(* Handlers: what a call of a registered handler can do *)

Return(v) == [kind |-> "return", value |-> v, exc |-> "", msg |-> ""]
Raise(cls, msg) == [kind |-> "raise", value |-> None, exc |-> cls, msg |-> msg]
NoCall == [kind |-> "none", value |-> None, exc |-> "", msg |-> ""]

\* isinstance(e, ValueError): ValueError and its subclasses.
IsValueError(cls) == cls \in {"ValueError", "UnicodeDecodeError"}

\* isinstance(e, Exception): every class here but asyncio.CancelledError, which
\* derives from BaseException only.
IsException(cls) ==
    cls \in {"ValueError", "UnicodeDecodeError", "TypeError", "RuntimeError"}

\* The four closures register_jsonrpc_methods registers, and "custom": any other
\* callable handed to register_method.
Handlers == {"initialize", "ping", "tools_list", "tools_call", "custom"}

HandlerOutcomes(h) ==
    CASE h = "initialize" -> {Return(Some("descriptor"))}
      [] h = "ping" -> {Return(Some("{}"))}
      [] h = "tools_list" -> {Return(Some("tools"))}
      [] h = "tools_call" ->
            {Return(Some("content")),
             Raise("ValueError", "Tool name is required"),
             Raise("ValueError", "Tool not found"),
             Raise("TypeError", "unexpected keyword argument")}
      [] OTHER ->
            {Return(Some("value")), Return(None),
             Raise("ValueError", "Invalid parameter provided"),
             Raise("UnicodeDecodeError", "invalid start byte"),
             Raise("RuntimeError", "Something went wrong"),
             Raise("CancelledError", "")}

\* The outcomes of dispatching `method` on table `tbl`.
OutcomesFor(tbl, method) ==
    IF method \in DOMAIN tbl THEN HandlerOutcomes(tbl[method]) ELSE {NoCall}

-----------------------------------------------------------------------------
(* JSONRPCHandler *)

register_method_first_wins(tbl, method_name, handler) ==
    IF method_name \in DOMAIN tbl THEN tbl ELSE Put(tbl, method_name, handler)

\* JSONRPCHandler.register_method: methods[method_name] = handler.
register_method(tbl, method_name, handler) == Put(tbl, method_name, handler)

\* The envelope for a method that is not in the table, with the name left out of
\* the message.
MethodNotFoundUnnamed(request) ==
    JSONRPCResponse(request.id, None,
                    Some(JSONRPCError(METHOD_NOT_FOUND, <<"Method not found">>, None)))

\* The envelope for a method that is not in the table.
MethodNotFound(request) ==
    JSONRPCResponse(request.id, None,
                    Some(JSONRPCError(METHOD_NOT_FOUND,
                                      <<"Method not found: ", request.method>>, None)))

\* The envelope for a handler that returned `result`.
Success(request, result) == JSONRPCResponse(request.id, result, None)

\* The envelope for a handler that raised a ValueError: message=str(e).
InvalidParams(request, msg) ==
    JSONRPCResponse(request.id, None, Some(JSONRPCError(INVALID_PARAMS, <<msg>>, None)))

\* The internal-error envelope with the details left out.
InternalErrorNoData(request, msg) ==
    JSONRPCResponse(request.id, None,
                    Some(JSONRPCError(INTERNAL_ERROR, <<"Internal error">>, None)))

\* The envelope for a handler that raised any other Exception:
\* data={"details": str(e)}.
InternalError(request, msg) ==
    JSONRPCResponse(request.id, None,
                    Some(JSONRPCError(INTERNAL_ERROR, <<"Internal error">>,
                                      Some([details |-> <<msg>>]))))

\* A dispatcher that answers a notification (no id) without calling the handler.
handle_request_skip_notifications(tbl, request, outcome) ==
    IF request.method \notin DOMAIN tbl
    THEN [response |-> Some(MethodNotFound(request)), ran |-> <<>>]
    ELSE IF request.id = None
    THEN [response |-> Some(Success(request, None)), ran |-> <<>>]
    ELSE IF outcome.kind = "return"
    THEN [response |-> Some(Success(request, outcome.value)),
          ran |-> <<tbl[request.method]>>]
    ELSE IF IsValueError(outcome.exc)
    THEN [response |-> Some(InvalidParams(request, outcome.msg)),
          ran |-> <<tbl[request.method]>>]
    ELSE IF IsException(outcome.exc)
    THEN [response |-> Some(InternalError(request, outcome.msg)),
          ran |-> <<tbl[request.method]>>]
    ELSE [response |-> None, ran |-> <<tbl[request.method]>>]

\* handle_request: the envelope returned (None when what the handler raised is
\* caught by neither except clause and propagates to the caller) and the handlers
\* it ran, in order.
handle_request(tbl, request, outcome) ==
    IF request.method \notin DOMAIN tbl
    THEN [response |-> Some(MethodNotFound(request)), ran |-> <<>>]
    ELSE IF outcome.kind = "return"
    THEN [response |-> Some(Success(request, outcome.value)),
          ran |-> <<tbl[request.method]>>]
    ELSE IF IsValueError(outcome.exc)
    THEN [response |-> Some(InvalidParams(request, outcome.msg)),
          ran |-> <<tbl[request.method]>>]
    ELSE IF IsException(outcome.exc)
    THEN [response |-> Some(InternalError(request, outcome.msg)),
          ran |-> <<tbl[request.method]>>]
    ELSE [response |-> None, ran |-> <<tbl[request.method]>>]

\* The table after register_jsonrpc_methods (the server's lifespan start-up).
ServerMethods ==
    register_method(
        register_method(
            register_method(
                register_method(EmptyMap, "initialize", "initialize"),
                "ping", "ping"),
            "tools/list", "tools_list"),
        "tools/call", "tools_call")

NoOutput == [kind |-> "none"]

-----------------------------------------------------------------------------
(* State after construction *)

FreeStream == [pc |-> "free"]

\* MCPSessionManager.__init__: _cleanup_task is None, no reaper task exists.
\* `sleeping` are the tasks waiting in asyncio.sleep, `cancelling` those
\* cancelled whose CancelledError is still to be delivered.
NoReaper == [task |-> None, sleeping |-> {}, cancelling |-> {}, spawned |-> 0]

InitTransport ==
    /\ tools = EmptyMap
    /\ reaper = NoReaper
    /\ sessions = EmptyMap
    /\ detached = EmptyMap
    /\ uuid_count = 0
    /\ now = 0
    /\ calls = EmptyBag
    /\ streams = [s \in 1..MaxStreams |-> FreeStream]
    /\ http = NoOutput

transport_vars == <<reaper, sessions, detached, uuid_count, now, calls, streams>>

-----------------------------------------------------------------------------
(* The dispatcher and the legacy endpoints *)

LegacyPaths == {"/", "/rpc", "/jsonrpc"}

\* JSONRPCHandler.register_method
RegisterMethod(name, h) ==
    /\ name \in DOMAIN methods \/ Cardinality(DOMAIN methods) < MaxMethods
    /\ methods' = register_method(methods, name, h)
    /\ http' = NoOutput
    /\ UNCHANGED tools
    /\ UNCHANGED transport_vars

\* What jsonrpc_endpoint answers for the outcome `r` of handle_request.
LegacyResponse(path, request, outcome, r) ==
    IF r.response = None
    THEN [kind |-> "aborted", path |-> path, request |-> request, outcome |-> outcome,
          ran |-> r.ran]
    ELSE [kind |-> "legacy", path |-> path, request |-> request, outcome |-> outcome,
          ran |-> r.ran, envelope |-> r.response[1], status |-> 200,
          body |-> Some(ModelDump(r.response[1]))]

\* jsonrpc_endpoint: POST /, /rpc, /jsonrpc
\* A legacy endpoint that went through the transport's session resolution, as
\* POST /mcp does: every known session is touched and a session id is drawn.
JsonrpcEndpointWithSession(path, request, outcome) ==
    /\ http' = LegacyResponse(path, request, outcome,
                                  handle_request(methods, request, outcome))
    /\ sessions' = [k \in DOMAIN sessions |-> [sessions[k] EXCEPT !.last_activity = now]]
    /\ uuid_count' = uuid_count + 1
    /\ UNCHANGED <<methods, tools, reaper, detached, now, calls, streams>>

JsonrpcEndpoint(path, request, outcome) ==
    /\ http' = LegacyResponse(path, request, outcome,
                                  handle_request(methods, request, outcome))
    /\ UNCHANGED <<methods, tools>>
    /\ UNCHANGED transport_vars

InitDispatch ==
    /\ methods = EmptyMap
    /\ InitTransport

\* The names and handlers the dispatcher is exercised with on its own: a handler
\* that only returns, one that also raises, and an arbitrary callable.
DispatchNames == {"ping", "tools/call", "x/y"}
DispatchHandlers == {"ping", "tools_call", "custom"}

NextDispatch ==
    \/ \E name \in DispatchNames, h \in DispatchHandlers : RegisterMethod(name, h)
    \/ \E path \in LegacyPaths, method \in DispatchNames, id \in RequestIds :
          \E outcome \in OutcomesFor(methods, method) :
             JsonrpcEndpoint(path, JSONRPCRequest(method, id), outcome)

SpecDispatch == InitDispatch /\ [][NextDispatch]_vars

-----------------------------------------------------------------------------
(* MCPSession and MCPSessionManager *)

\* The values uuid.uuid4() returns, in the order of the draws: the draws of one
\* run are pairwise distinct.
UuidSeq == <<"u1", "u2", "u3", "u4", "u5", "u6">>

\* A generator that repeats itself: every draw returns the first value.
Uuid4Repeating(count) == UuidSeq[1]

\* str(uuid.uuid4()) after `count` earlier draws.
Uuid4(count) == UuidSeq[count + 1]

\* The session ids issued so far.
Issued == {UuidSeq[i] : i \in 1..uuid_count}

\* A fresh MCPSession (the dataclass defaults), created at time t.  created_at
\* is written here and read nowhere: it is left out of the state.
MCPSession(session_id, t) ==
    [session_id |-> session_id,
     last_activity |-> t,
     message_queue |-> <<>>,
     messages_sent |-> <<>>,
     last_event_id |-> 0]

\* A create_session whose new session shares the log, the queue and the counter
\* of a session already registered (a mutable default shared between instances).
create_session_inheriting(reg, count, t) ==
    [session |-> Uuid4(count),
     sessions |-> Put(reg, Uuid4(count),
                      IF DOMAIN reg = {} THEN MCPSession(Uuid4(count), t)
                      ELSE [reg[CHOOSE k \in DOMAIN reg : TRUE]
                               EXCEPT !.session_id = Uuid4(count), !.last_activity = t]),
     uuid_count |-> count + 1,
     created |-> TRUE]

\* create_session: the new session's id, the registry and the draw count after it.
create_session(reg, count, t) ==
    [session |-> Uuid4(count),
     sessions |-> Put(reg, Uuid4(count), MCPSession(Uuid4(count), t)),
     uuid_count |-> count + 1,
     created |-> TRUE]

\* A lookup that finds nothing.
get_session_miss(reg, session_id, t) == [session |-> None, sessions |-> reg]

\* A lookup that inserts a session under a missing key (dict.setdefault).
get_session_setdefault(reg, session_id, t) ==
    IF session_id \in DOMAIN reg
    THEN [session |-> Some(session_id),
          sessions |-> [reg EXCEPT ![session_id].last_activity = t]]
    ELSE [session |-> Some(session_id),
          sessions |-> Put(reg, session_id, MCPSession(session_id, t))]

\* get_session: the session found (by its id) or None, and the registry after
\* the lookup, which refreshes last_activity of a session found.
get_session(reg, session_id, t) ==
    IF session_id \in DOMAIN reg
    THEN [session |-> Some(session_id),
          sessions |-> [reg EXCEPT ![session_id].last_activity = t]]
    ELSE [session |-> None, sessions |-> reg]

\* A delete that empties the registry when the id is present.
delete_session_all(reg, session_id) ==
    IF session_id \in DOMAIN reg THEN EmptyMap ELSE reg

\* delete_session
delete_session(reg, session_id) ==
    IF session_id \in DOMAIN reg THEN Drop(reg, {session_id}) ELSE reg

-----------------------------------------------------------------------------
(* MCPTransport: POST /mcp *)

MCP_PROTOCOL_VERSION == "2024-11-05"

\* A replacement session registered under the id the client supplied.
ResolveSessionKeepId(reg, count, t, hdr) ==
    IF hdr # None /\ Truthy(hdr[1])
    THEN IF get_session(reg, hdr[1], t).session # None
         THEN [session |-> hdr[1], sessions |-> get_session(reg, hdr[1], t).sessions,
               uuid_count |-> count, created |-> FALSE]
         ELSE [session |-> hdr[1],
               sessions |-> Put(reg, hdr[1], MCPSession(hdr[1], t)),
               uuid_count |-> count, created |-> FALSE]
    ELSE create_session(reg, count, t)

\* handle_post_request, "Get or create session": the session the call holds, the
\* registry and the draw count after it.
ResolveSession(reg, count, t, hdr) ==
    IF hdr # None /\ Truthy(hdr[1])
    THEN IF get_session(reg, hdr[1], t).session # None
         THEN [session |-> get_session(reg, hdr[1], t).session[1],
               sessions |-> get_session(reg, hdr[1], t).sessions,
               uuid_count |-> count, created |-> FALSE]
         ELSE create_session(reg, count, t)
    ELSE create_session(reg, count, t)

ResponseHeaders(session_id) ==
    [MCP_SESSION_ID |-> session_id, MCP_PROTOCOL_VERSION |-> MCP_PROTOCOL_VERSION]

\* handle_post_request after the dispatch: the Response for envelope r.response.
PostResponse(request, outcome, r, session_id) ==
    IF r.response = None
    THEN [kind |-> "aborted", request |-> request, outcome |-> outcome, ran |-> r.ran]
    ELSE IF request.method = "initialize" \/ request.id # None
    THEN [kind |-> "post", request |-> request, outcome |-> outcome,
          ran |-> r.ran, envelope |-> r.response[1],
          status |-> 200, headers |-> ResponseHeaders(session_id),
          body |-> Some(ModelDump(r.response[1]))]
    ELSE [kind |-> "post", request |-> request, outcome |-> outcome,
          ran |-> r.ran, envelope |-> r.response[1],
          status |-> 202, headers |-> ResponseHeaders(session_id),
          body |-> None]

\* A request body as the client sends it: text that is not JSON, or a JSON
\* object with or without the envelope's fields.
MalformedBody == [json |-> FALSE]
JsonBody(jsonrpc, method, id) ==
    [json |-> TRUE, jsonrpc |-> jsonrpc, method |-> method, id |-> id]

\* The validation of the body parameter `jsonrpc_request: JSONRPCRequest`: the
\* request model, or None when the body is not JSON, jsonrpc is given and is
\* not "2.0", or method is missing.
ParseBody(body) ==
    IF ~body.json THEN None
    ELSE IF body.jsonrpc # None /\ body.jsonrpc # Some("2.0") THEN None
    ELSE IF body.method = None THEN None
    ELSE Some(JSONRPCRequest(body.method[1], body.id))

\* POST /mcp with a body that fails validation: the framework answers 422 with
\* the validation errors and does not call mcp_post_endpoint.
RejectBody(path, body) ==
    /\ ParseBody(body) = None
    /\ http' = [kind |-> "rejected", path |-> path, request |-> body, status |-> 422,
                body |-> Some([detail |-> IF body.json THEN "missing" ELSE "json_invalid"])]
    /\ UNCHANGED <<methods, tools, reaper, sessions, detached, uuid_count, now, calls, streams>>

\* The frame of a call suspended in `await handler(...)`.
Frame(request, session_id) == [request |-> request, session |-> session_id]

\* The Mcp-Protocol-Version check: a warning is logged for a version that is
\* given and is not the server's.
VersionWarning(version) ==
    version # None /\ Truthy(version[1]) /\ version[1] # MCP_PROTOCOL_VERSION

\* An entry that does not trust the session header of a client whose protocol
\* version mismatches, and starts a new session for it.
PostEntryStrict(reg, count, t, hdr, version) ==
    [resolved |-> IF VersionWarning(version) THEN create_session(reg, count, t)
                  ELSE ResolveSession(reg, count, t, hdr),
     warned |-> VersionWarning(version)]

\* handle_post_request before the dispatch: the version check, then the
\* session resolution.
PostEntry(reg, count, t, hdr, version) ==
    [resolved |-> ResolveSession(reg, count, t, hdr),
     warned |-> VersionWarning(version)]

\* handle_post_request up to the await of the handler.  The frame keeps the
\* locals read after the await: the request and the session.
PostBegin(request, hdr, version) ==
    /\ BagCardinality(calls) < MaxCalls
    /\ LET r == PostEntry(sessions, uuid_count, now, hdr, version).resolved IN
         /\ r.uuid_count <= MaxSessions
         /\ sessions' = r.sessions
         /\ uuid_count' = r.uuid_count
         /\ calls' = calls (+) SetToBag({Frame(request, r.session)})
         /\ http' = [kind |-> "post_in", request |-> request, hdr |-> hdr,
                     session |-> r.session, version |-> version,
                     warned |-> PostEntry(sessions, uuid_count, now, hdr, version).warned]
    /\ UNCHANGED <<methods, tools, reaper, detached, now, streams>>

\* handle_post_request from the handler's completion to the Response.
\* An answer that takes the call's session out of the registry again when the
\* call failed or was a notification.
PostFinishRollback(frame, outcome) ==
    /\ BagIn(frame, calls)
    /\ http' = PostResponse(frame.request, outcome,
                            handle_request(methods, frame.request, outcome),
                            frame.session)
    /\ calls' = calls (-) SetToBag({frame})
    /\ sessions' = IF outcome.kind = "return" /\ frame.request.id # None
                   THEN sessions
                   ELSE delete_session(sessions, frame.session)
    /\ UNCHANGED <<methods, tools, reaper, detached, uuid_count, now, streams>>

PostFinish(frame, outcome) ==
    /\ BagIn(frame, calls)
    /\ http' = PostResponse(frame.request, outcome,
                            handle_request(methods, frame.request, outcome),
                            frame.session)
    /\ calls' = calls (-) SetToBag({frame})
    /\ UNCHANGED <<methods, tools, reaper, sessions, detached, uuid_count, now, streams>>

-----------------------------------------------------------------------------
(* MCPTransport: GET /mcp *)

\* str(n) and int(s) on the event ids and markers of a run.
DecimalStr == <<"0", "1", "2", "3", "4", "5", "6">>
Str(n) == DecimalStr[n + 1]
IsDecimal(text) == \E i \in DOMAIN DecimalStr : DecimalStr[i] = text
ParseInt(text) == (CHOOSE i \in DOMAIN DecimalStr : DecimalStr[i] = text) - 1

\* A message of the SSE stream (MCPMessage).
MCPMessage(id, data, event) == [id |-> id, data |-> data, event |-> event]

\* An allocator that hands out the current counter value without advancing it.
get_next_event_id_stale(session) ==
    [session |-> session, id |-> Str(session.last_event_id + 1)]

\* get_next_event_id: the session after the increment, and the id returned.
get_next_event_id(session) ==
    [session |-> [session EXCEPT !.last_event_id = @ + 1],
     id |-> Str(session.last_event_id + 1)]

\* A queue_message that files the message at the front of the replay log.
queue_message_lifo(session, data, event, t) ==
    LET alloc == get_next_event_id(session)
        message == MCPMessage(alloc.id, data, event)
    IN [alloc.session EXCEPT !.messages_sent = <<message>> \o @,
                             !.message_queue = Append(@, message),
                             !.last_activity = t]

\* A queue_message on a last-in-first-out channel: the message is put at the
\* front of the queue.
queue_message_front(session, data, event, t) ==
    LET alloc == get_next_event_id(session)
        message == MCPMessage(alloc.id, data, event)
    IN [alloc.session EXCEPT !.messages_sent = Append(@, message),
                             !.message_queue = <<message>> \o @,
                             !.last_activity = t]

\* A queue_message whose put is lost: the message is logged and never queued.
queue_message_unqueued(session, data, event, t) ==
    LET alloc == get_next_event_id(session)
        message == MCPMessage(alloc.id, data, event)
    IN [alloc.session EXCEPT !.messages_sent = Append(@, message),
                             !.last_activity = t]

\* queue_message: the session after it.  asyncio.Queue() is unbounded, so the
\* await of put() never suspends and the whole coroutine runs in one step of
\* the event loop.
queue_message(session, data, event, t) ==
    LET alloc == get_next_event_id(session)
        message == MCPMessage(alloc.id, data, event)
    IN [alloc.session EXCEPT !.messages_sent = Append(@, message),
                             !.message_queue = Append(@, message),
                             !.last_activity = t]

\* A filter that keeps the marker's own message (>= for >).
get_messages_after_inclusive(session, last_event_id) ==
    IF IsDecimal(last_event_id)
    THEN LET From(msg) == ParseInt(msg.id) >= ParseInt(last_event_id)
         IN SelectSeq(session.messages_sent, From)
    ELSE <<>>

\* A replay of the whole log, whatever the marker.
get_messages_after_all(session, last_event_id) == session.messages_sent

\* get_messages_after: [] when int(last_event_id) raises ValueError.
get_messages_after(session, last_event_id) ==
    IF IsDecimal(last_event_id)
    THEN LET After(msg) == ParseInt(msg.id) > ParseInt(last_event_id)
         IN SelectSeq(session.messages_sent, After)
    ELSE <<>>

\* The MCPSession object a stream holds: the registered one, or the one the
\* registry dropped while the stream held it.
SessionObject(session_id) ==
    IF session_id \in DOMAIN detached THEN detached[session_id] ELSE sessions[session_id]

Referenced(strms, session_id) ==
    \E s \in DOMAIN strms : strms[s].pc # "free" /\ strms[s].session = session_id

\* handle_get_request: 400 without a session header, 404 for an unknown session,
\* otherwise an EventSourceResponse over a new event_generator.
GetRequest(hdr, last_event_id) ==
    LET found == IF hdr # None /\ Truthy(hdr[1])
                 THEN get_session(sessions, hdr[1], now)
                 ELSE [session |-> None, sessions |-> sessions]
    IN
    IF hdr = None \/ ~Truthy(hdr[1])
    THEN /\ http' = [kind |-> "get", hdr |-> hdr, status |-> 400,
                     body |-> Some("No session ID provided. Initialize first.")]
         /\ UNCHANGED <<methods, tools, reaper, sessions, detached, uuid_count, now, calls, streams>>
    ELSE IF found.session = None
    THEN /\ sessions' = found.sessions
         /\ http' = [kind |-> "get", hdr |-> hdr, status |-> 404,
                     body |-> Some("Invalid session ID")]
         /\ UNCHANGED <<methods, tools, reaper, detached, uuid_count, now, calls, streams>>
    ELSE \E s \in DOMAIN streams :
            /\ streams[s].pc = "free"
            /\ \A s2 \in DOMAIN streams : s2 < s => streams[s2].pc # "free"
            /\ sessions' = found.sessions
            /\ streams' = [streams EXCEPT ![s] =
                   [pc |-> "start", session |-> found.session[1],
                    last_event_id |-> last_event_id, missed |-> <<>>,
                    event_id |-> None, emitted |-> <<>>]]
            /\ http' = [kind |-> "get", hdr |-> hdr, status |-> 200,
                        headers |-> ResponseHeaders(found.session[1]),
                        body |-> None, stream |-> s, last_event_id |-> last_event_id]
            /\ UNCHANGED <<methods, tools, reaper, detached, uuid_count, now, calls>>

\* The registry and the detached objects after session `sid` becomes `obj`.
StoreObject(sid, obj) ==
    IF sid \in DOMAIN detached
    THEN /\ detached' = [detached EXCEPT ![sid] = obj]
         /\ UNCHANGED sessions
    ELSE /\ sessions' = [sessions EXCEPT ![sid] = obj]
         /\ UNCHANGED detached

\* event_generator: the connection confirmation, with a fresh event id.
StreamConnect(s) ==
    LET sid == streams[s].session
        obj == SessionObject(sid)
        alloc == get_next_event_id(obj)
    IN /\ obj.last_event_id < MaxEvents
       /\ StoreObject(sid, alloc.session)
       /\ streams' = [streams EXCEPT ![s].pc = "loop", ![s].missed = <<>>,
                                     ![s].last_event_id = None,
                                     ![s].event_id = Some(alloc.id),
                                     ![s].emitted = Append(@, alloc.id)]
       /\ http' = [kind |-> "sse", stream |-> s, id |-> Some(alloc.id),
                   event |-> "message", data |-> "connection"]

\* event_generator: a replayed message.
StreamReplay(s, missed) ==
    /\ streams' = [streams EXCEPT ![s].pc = "replay", ![s].missed = Tail(missed),
                                  ![s].last_event_id = None,
                                  ![s].emitted = Append(@, Head(missed).id)]
    /\ http' = [kind |-> "sse", stream |-> s, id |-> Some(Head(missed).id),
                event |-> IF Head(missed).event = None THEN "message"
                          ELSE Head(missed).event[1],
                data |-> Head(missed).data]
    /\ UNCHANGED <<sessions, detached>>

\* A keepalive that carries the id of the last event allocated.
KeepaliveEventNumbered(s) ==
    [kind |-> "sse", stream |-> s,
     id |-> Some(Str(SessionObject(streams[s].session).last_event_id)),
     event |-> "", data |-> "", comment |-> "keepalive"]

\* {"comment": "keepalive"}: no id, no event, no data.
KeepaliveEvent(s) ==
    [kind |-> "sse", stream |-> s, id |-> None,
     event |-> "", data |-> "", comment |-> "keepalive"]

\* A wait that reads the head of the queue and leaves it there.
StreamWaitPeek(s) ==
    LET sid == streams[s].session
        obj == SessionObject(sid)
    IN IF obj.message_queue # <<>>
       THEN /\ http' = [kind |-> "sse", stream |-> s,
                        id |-> Some(Head(obj.message_queue).id),
                        event |-> IF Head(obj.message_queue).event = None THEN "message"
                                  ELSE Head(obj.message_queue).event[1],
                        data |-> Head(obj.message_queue).data]
            /\ streams' = [streams EXCEPT ![s].emitted =
                                           Append(@, Head(obj.message_queue).id)]
            /\ UNCHANGED <<sessions, detached>>
       ELSE /\ http' = KeepaliveEvent(s)
            /\ UNCHANGED <<sessions, detached, streams>>

\* event_generator: the wait on the queue ended, with a message or with the
\* 30 s timeout (a keepalive comment).
StreamWait(s) ==
    LET sid == streams[s].session
        obj == SessionObject(sid)
    IN IF obj.message_queue # <<>>
       THEN /\ StoreObject(sid, [obj EXCEPT !.message_queue = Tail(@)])
            /\ http' = [kind |-> "sse", stream |-> s,
                        id |-> Some(Head(obj.message_queue).id),
                        event |-> IF Head(obj.message_queue).event = None THEN "message"
                                  ELSE Head(obj.message_queue).event[1],
                        data |-> Head(obj.message_queue).data]
            /\ streams' = [streams EXCEPT ![s].emitted =
                                           Append(@, Head(obj.message_queue).id)]
       ELSE /\ http' = KeepaliveEvent(s)
            /\ UNCHANGED <<sessions, detached, streams>>

\* event_generator resumed, up to its next yield.  The Last-Event-Id it closes
\* over is read on the first resumption only, and forgotten after it.
StreamResume(s) ==
    /\ streams[s].pc \in {"start", "replay", "loop"}
    /\ LET missed ==
             IF streams[s].pc = "replay" THEN streams[s].missed
             ELSE IF streams[s].pc = "start" /\ streams[s].last_event_id # None
                     /\ Truthy(streams[s].last_event_id[1])
             THEN get_messages_after(SessionObject(streams[s].session),
                                     streams[s].last_event_id[1])
             ELSE <<>>
       IN IF streams[s].pc = "loop" THEN StreamWait(s)
          ELSE IF missed # <<>> THEN StreamReplay(s, missed)
          ELSE StreamConnect(s)
    /\ UNCHANGED <<methods, tools, reaper, uuid_count, now, calls>>

\* A disconnect that still completes the pending wait on the queue: the head of
\* the session's queue is taken and thrown away.
StreamCancelDraining(s) ==
    /\ streams[s].pc # "free"
    /\ streams' = [streams EXCEPT ![s] = FreeStream]
    /\ sessions' = [k \in DOMAIN sessions |->
                      IF k = streams[s].session /\ sessions[k].message_queue # <<>>
                      THEN [sessions[k] EXCEPT !.message_queue = Tail(@)]
                      ELSE sessions[k]]
    /\ detached' = Drop(detached, {sid \in DOMAIN detached : ~Referenced(streams', sid)})
    /\ http' = NoOutput
    /\ UNCHANGED <<methods, tools, reaper, uuid_count, now, calls>>

\* The client disconnects: the generator is cancelled at its yield or its wait.
StreamCancel(s) ==
    /\ streams[s].pc # "free"
    /\ streams' = [streams EXCEPT ![s] = FreeStream]
    /\ detached' = Drop(detached, {sid \in DOMAIN detached : ~Referenced(streams', sid)})
    /\ http' = NoOutput
    /\ UNCHANGED <<methods, tools, reaper, sessions, uuid_count, now, calls>>

-----------------------------------------------------------------------------
(* The registry's other callers, and time *)

\* MCPSessionManager.delete_session; an object a stream still holds lives on.
DeleteSession(session_id) ==
    /\ sessions' = delete_session(sessions, session_id)
    /\ detached' = IF session_id \in DOMAIN sessions /\ Referenced(streams, session_id)
                   THEN Put(detached, session_id, sessions[session_id])
                   ELSE detached
    /\ http' = NoOutput
    /\ UNCHANGED <<methods, tools, reaper, uuid_count, now, calls, streams>>

\* datetime.now() advances.
Tick ==
    /\ now < MaxTime
    /\ now' = now + 1
    /\ http' = NoOutput
    /\ UNCHANGED <<methods, tools, reaper, sessions, detached, uuid_count, calls, streams>>

-----------------------------------------------------------------------------
(* The server *)

\* The Mcp-Session-Id headers a client sends: none, an empty one, one the server
\* never issued, one it issued.
SessionHeaders == {None, Some(""), Some("invalid-session-id")} \cup {Some(u) : u \in Issued}

\* The calls on POST /mcp: initialize, a registered method whose handler may
\* raise, a method that is not registered; without an id and with one (the
\* transport reads of an id only whether it is None).
PostMethods == {"initialize", "tools/call", "x/y"}
PostIds == {None, Some(JsonInt("1"))}

\* Bodies that are no call envelope: not JSON, no method, another jsonrpc version.
InvalidBodies ==
    {MalformedBody,
     JsonBody(Some("2.0"), None, Some(JsonInt("1"))),
     JsonBody(Some("1.0"), Some("ping"), Some(JsonInt("1")))}

\* The Mcp-Protocol-Version headers a client sends: none, the server's, another.
ProtocolVersions == {None, Some(MCP_PROTOCOL_VERSION), Some("2025-03-26")}

\* The Last-Event-Id headers of the streams.
LastEventIds == {None, Some("0")}

Init ==
    /\ methods = ServerMethods
    /\ InitTransport

\* The request/response endpoint and the registry.
Next ==
    \/ Tick
    \/ \E method \in PostMethods, id \in PostIds, hdr \in SessionHeaders :
          PostBegin(JSONRPCRequest(method, id), hdr, None)
    \/ \E frame \in BagToSet(calls) :
          \E outcome \in OutcomesFor(methods, frame.request.method) :
             PostFinish(frame, outcome)
    \/ \E session_id \in Issued : DeleteSession(session_id)
    \/ \E body \in InvalidBodies : RejectBody("/mcp", body)

Spec == Init /\ [][Next]_vars

\* A tool's schema entry (ToolSchema).
ToolSchema(name, description, input_schema) ==
    [name |-> name, description |-> description, inputSchema |-> input_schema]

\* MCPHandler.register_tool: tools[name] and tool_schemas[name] are written
\* together, here as one entry.
register_tool(tbl, name, description, input_schema, handler) ==
    Put(tbl, name, [handler |-> handler,
                    schema |-> ToolSchema(name, description, input_schema)])

\* mcp_handler.register_tool(...)
RegisterTool(name, description, handler) ==
    /\ name \in DOMAIN tools \/ Cardinality(DOMAIN tools) < MaxTools
    /\ tools' = register_tool(tools, name, description, "object", handler)
    /\ http' = NoOutput
    /\ UNCHANGED <<methods, reaper, sessions, detached, uuid_count, now, calls, streams>>

ToolNames == {"create_table", "insert_record"}
ToolDescriptions == {"Create a new table in the database", "Insert a new record into a table"}
ToolHandlers == {"create_table", "insert_record"}

\* Registrations on the server's two tables.
NextRegistration ==
    \/ \E name \in DispatchNames, h \in DispatchHandlers : RegisterMethod(name, h)
    \/ \E name \in ToolNames, description \in ToolDescriptions, h \in ToolHandlers :
          RegisterTool(name, description, h)

SpecRegistration == InitDispatch /\ [][NextRegistration]_vars

\* POST /mcp with the protocol version headers.
NextVersion ==
    \/ Tick
    \/ \E id \in PostIds, hdr \in SessionHeaders, version \in ProtocolVersions :
          PostBegin(JSONRPCRequest("ping", id), hdr, version)
    \/ \E frame \in BagToSet(calls) :
          \E outcome \in OutcomesFor(methods, frame.request.method) :
             PostFinish(frame, outcome)
    \/ \E session_id \in Issued : DeleteSession(session_id)

SpecVersion == Init /\ [][NextVersion]_vars

\* MCPSessionManager.create_session, as handle_post_request runs it on first
\* contact.
CreateSession ==
    /\ uuid_count < MaxStreamSessions
    /\ sessions' = create_session(sessions, uuid_count, now).sessions
    /\ uuid_count' = create_session(sessions, uuid_count, now).uuid_count
    /\ http' = NoOutput
    /\ UNCHANGED <<methods, tools, reaper, detached, now, calls, streams>>

\* The streaming endpoint and the registry.
NextStream ==
    \/ Tick
    \/ CreateSession
    \/ \E hdr \in SessionHeaders, last_event_id \in LastEventIds :
          GetRequest(hdr, last_event_id)
    \/ \E s \in DOMAIN streams : StreamResume(s)
    \/ \E s \in DOMAIN streams : StreamCancel(s)
    \/ \E session_id \in Issued : DeleteSession(session_id)

SpecStream == Init /\ [][NextStream]_vars

-----------------------------------------------------------------------------
(* Server-initiated push: queue_message, send_notification, the reaper *)

\* The payloads queued: json texts, each the dump of a small object.
Payloads == {[type |-> "A"], [type |-> "B"], [type |-> "C"]}

\* session.queue_message(data, event) on a registered session.
QueueMessage(session_id, data, event) ==
    /\ session_id \in DOMAIN sessions
    /\ sessions[session_id].last_event_id < MaxEvents
    /\ sessions' = [sessions EXCEPT ![session_id] = queue_message(@, data, event, now)]
    /\ http' = NoOutput
    /\ UNCHANGED <<methods, tools, reaper, detached, uuid_count, now, calls, streams>>

\* The Call Envelope send_notification builds: no id.
Notification(method) == [jsonrpc |-> "2.0", method |-> method, params |-> EmptyMap]

\* A lookup-or-create in place of the lookup: a missing target is registered.
send_notification_autocreate(reg, session_id, method, t) ==
    LET target == IF session_id \in DOMAIN reg THEN reg
                  ELSE Put(reg, session_id, MCPSession(session_id, t))
    IN [target EXCEPT ![session_id] =
           queue_message(@, Notification(method), Some("message"), t)]

\* A send_notification that queues the notification on every session.
send_notification_broadcast(reg, session_id, method, t) ==
    [k \in DOMAIN reg |-> queue_message(reg[k], Notification(method), Some("message"), t)]

\* send_notification: the registry after it.
send_notification(reg, session_id, method, t) ==
    LET found == get_session(reg, session_id, t)
    IN IF found.session = None THEN found.sessions
       ELSE [found.sessions EXCEPT ![session_id] =
                queue_message(@, Notification(method), Some("message"), t)]

\* mcp_transport.send_notification(session_id, method).
SendNotification(session_id, method) ==
    /\ session_id \in DOMAIN sessions => sessions[session_id].last_event_id < MaxEvents
    /\ sessions' = send_notification(sessions, session_id, method, now)
    /\ http' = [kind |-> "notify", session_id |-> session_id, method |-> method]
    /\ UNCHANGED <<methods, tools, reaper, detached, uuid_count, now, calls, streams>>

\* timedelta(minutes=session_timeout_minutes), in ticks of the clock: one tick
\* is the length of the timeout.
session_timeout == 1

\* A sweep whose pass over the registry is cut short: only one of the expired
\* sessions is removed.
cleanup_expired_sessions_partial(reg, t) ==
    LET expired == {sid \in DOMAIN reg : t - reg[sid].last_activity > session_timeout}
    IN IF expired = {} THEN reg
       ELSE Drop(reg, {CHOOSE sid \in expired : TRUE})

\* A sweep that also removes the sessions idle for exactly the timeout.
cleanup_expired_sessions_eager(reg, t) ==
    Drop(reg, {sid \in DOMAIN reg : t - reg[sid].last_activity >= session_timeout})

\* cleanup_expired_sessions: the registry after the sweep at time t.
cleanup_expired_sessions(reg, t) ==
    LET expired == {sid \in DOMAIN reg : t - reg[sid].last_activity > session_timeout}
    IN Drop(reg, expired)

\* A sweep that spares the sessions a stream is open on.
CleanupExpiredSessionsSparing ==
    /\ sessions' = Drop(sessions, {k \in DOMAIN sessions :
                                     /\ now - sessions[k].last_activity > session_timeout
                                     /\ ~Referenced(streams, k)})
    /\ http' = [kind |-> "sweep", at |-> now]
    /\ UNCHANGED <<methods, tools, reaper, detached, uuid_count, now, calls, streams>>

\* One sweep of the reaper; an object a stream still holds lives on.
CleanupExpiredSessions ==
    /\ sessions' = cleanup_expired_sessions(sessions, now)
    /\ detached' = [sid \in DOMAIN detached \cup
                        {k \in DOMAIN sessions \ DOMAIN sessions' : Referenced(streams, k)} |->
                    IF sid \in DOMAIN detached THEN detached[sid] ELSE sessions[sid]]
    /\ http' = [kind |-> "sweep", at |-> now]
    /\ UNCHANGED <<methods, tools, reaper, uuid_count, now, calls, streams>>

\* The clock of the session manager's runs.
Idle ==
    /\ now < MaxIdle
    /\ now' = now + 1
    /\ http' = NoOutput
    /\ UNCHANGED <<methods, tools, reaper, sessions, detached, uuid_count, calls, streams>>

\* session_manager.create_session().
ManagerCreateSession ==
    /\ uuid_count < MaxSessions
    /\ sessions' = create_session(sessions, uuid_count, now).sessions
    /\ uuid_count' = create_session(sessions, uuid_count, now).uuid_count
    /\ http' = NoOutput
    /\ UNCHANGED <<methods, tools, reaper, detached, now, calls, streams>>

\* The session ids send_notification is called with.
NotifyTargets == {"invalid-session-id"} \cup Issued

\* The session manager, the notifications and the reaper, without streams.
NextSessions ==
    \/ Idle
    \/ ManagerCreateSession
    \/ \E session_id \in NotifyTargets : SendNotification(session_id, "notifications/message")
    \/ CleanupExpiredSessions

SpecSessions == Init /\ [][NextSessions]_vars

\* stop_background_cleanup that drops its reference to the task without
\* cancelling it.
stop_background_cleanup_forget(r) == [r EXCEPT !.task = None]

\* MCPSessionManager.start_background_cleanup: `_cleanup_task` is `task`; the
\* tasks created by asyncio.create_task are numbered in the order of creation,
\* `sleeping` holds those inside start_cleanup_task's loop and `cancelling` those
\* that were cancelled and have not yet been resumed with CancelledError.
start_background_cleanup(r) ==
    IF r.task # None
    THEN r
    ELSE [task |-> Some(r.spawned + 1),
          sleeping |-> r.sleeping \cup {r.spawned + 1},
          cancelling |-> r.cancelling,
          spawned |-> r.spawned + 1]

\* MCPSessionManager.stop_background_cleanup: Task.cancel() takes the task out
\* of its sleep (or marks it so that its next step raises), whatever the task
\* was waiting for.
stop_background_cleanup(r) ==
    IF r.task = None
    THEN r
    ELSE [task |-> None,
          sleeping |-> r.sleeping \ {r.task[1]},
          cancelling |-> r.cancelling \cup {r.task[1]},
          spawned |-> r.spawned]

\* mcp_transport.start_cleanup()
StartBackgroundCleanup ==
    /\ reaper.task # None \/ reaper.spawned < MaxTasks
    /\ reaper' = start_background_cleanup(reaper)
    /\ http' = [kind |-> "reaper", op |-> "start"]
    /\ UNCHANGED <<methods, tools, sessions, detached, uuid_count, now, calls, streams>>

\* mcp_transport.stop_cleanup()
StopBackgroundCleanup ==
    /\ reaper' = stop_background_cleanup(reaper)
    /\ http' = [kind |-> "reaper", op |-> "stop"]
    /\ UNCHANGED <<methods, tools, sessions, detached, uuid_count, now, calls, streams>>

\* One round of start_cleanup_task's loop in the task `task`: the sleep is over
\* and cleanup_expired_sessions runs, without an await inside.
ReaperSweep(task) ==
    /\ task \in reaper.sleeping
    /\ sessions' = cleanup_expired_sessions(sessions, now)
    /\ detached' = [sid \in DOMAIN detached \cup
                        {k \in DOMAIN sessions \ DOMAIN sessions' : Referenced(streams, k)} |->
                    IF sid \in DOMAIN detached THEN detached[sid] ELSE sessions[sid]]
    /\ http' = [kind |-> "sweep", at |-> now, task |-> task]
    /\ UNCHANGED <<methods, tools, reaper, uuid_count, now, calls, streams>>

\* A cancelled task is resumed: CancelledError leaves the loop and the task is
\* done.
ReaperExit(task) ==
    /\ task \in reaper.cancelling
    /\ reaper' = [reaper EXCEPT !.cancelling = @ \ {task}]
    /\ http' = NoOutput
    /\ UNCHANGED <<methods, tools, sessions, detached, uuid_count, now, calls, streams>>

\* The reaper's task over the server's lifetime, with sessions that expire.
NextReaper ==
    \/ Idle
    \/ ManagerCreateSession
    \/ StartBackgroundCleanup
    \/ StopBackgroundCleanup
    \/ \E task \in 1..reaper.spawned : ReaperSweep(task)
    \/ \E task \in 1..reaper.spawned : ReaperExit(task)

SpecReaper == Init /\ [][NextReaper]_vars

\* Every caller of the registry at once, in any order: POSTs (first contacts and
\* calls on the first session), streaming GETs and disconnects and notifications
\* on the first session, deletions and sweeps of any session.
NextRegistry ==
    \/ Idle
    \/ ManagerCreateSession
    \/ \E hdr \in {None} \cup {Some(u) : u \in Issued \cap {Uuid4(0)}} :
          PostBegin(JSONRPCRequest("ping", Some(JsonInt("1"))), hdr, None)
    \/ \E frame \in BagToSet(calls) :
          \E outcome \in OutcomesFor(methods, frame.request.method) :
             PostFinish(frame, outcome)
    \/ GetRequest(Some(Uuid4(0)), None)
    \/ \E s \in DOMAIN streams : StreamCancel(s)
    \/ SendNotification(Uuid4(0), "notifications/message")
    \/ \E session_id \in Issued : DeleteSession(session_id)
    \/ CleanupExpiredSessions

SpecRegistry == Init /\ [][NextRegistry]_vars

\* The event loop's thread while a call is in flight: the handlers the server
\* registers (initialize, ping, tools/list, tools/call and the tools' sqlite3
\* accesses behind it) contain no await that suspends, so from the dispatch of
\* a call to its answer the thread runs the handler and nothing else.
LoopBlocked == calls # EmptyBag

LoopPostBegin(request, hdr) ==
    /\ ~LoopBlocked
    /\ PostBegin(request, hdr, None)

LoopGetRequest(hdr) ==
    /\ ~LoopBlocked
    /\ GetRequest(hdr, None)

LoopStreamResume(s) ==
    /\ ~LoopBlocked
    /\ StreamResume(s)

LoopSendNotification(session_id, method) ==
    /\ ~LoopBlocked
    /\ SendNotification(session_id, method)

\* The calls the clients of the deployed server make.
LoopMethods == {"ping", "tools/call"}

\* The deployed server: every coroutine runs on the one event loop.
NextLoop ==
    \/ \E method \in LoopMethods, hdr \in {None} \cup {Some(u) : u \in Issued} :
          LoopPostBegin(JSONRPCRequest(method, Some(JsonInt("1"))), hdr)
    \/ \E frame \in BagToSet(calls) :
          \E outcome \in OutcomesFor(methods, frame.request.method) :
             PostFinish(frame, outcome)
    \/ \E session_id \in Issued : LoopGetRequest(Some(session_id))
    \/ \E s \in DOMAIN streams : LoopStreamResume(s)
    \/ LoopSendNotification(Uuid4(0), "notifications/message")

SpecLoop == Init /\ [][NextLoop]_vars

\* The legacy paths, called on a server that holds sessions of other clients,
\* the first of which is pushed to.
NextLegacy ==
    \/ Tick
    \/ ManagerCreateSession
    \/ SendNotification(Uuid4(0), "notifications/message")
    \/ \E path \in LegacyPaths, method \in PostMethods, id \in PostIds :
          \E outcome \in OutcomesFor(methods, method) :
             JsonrpcEndpoint(path, JSONRPCRequest(method, id), outcome)

SpecLegacy == Init /\ [][NextLegacy]_vars

\* The callers of queue_message on the sessions, without streams.
NextQueue ==
    \/ Tick
    \/ CreateSession
    \/ \E session_id \in Issued, data \in Payloads : QueueMessage(session_id, data, None)

SpecQueue == Init /\ [][NextQueue]_vars

\* The Last-Event-Id headers of resumed streams: none, before the first event,
\* after the first event, not a number.
PushMarkers == {None, Some("0"), Some("1"), Some("not-a-number")}

\* The server after one client's first contact: one session registered.
InitPush ==
    /\ methods = ServerMethods
    /\ tools = EmptyMap
    /\ reaper = NoReaper
    /\ sessions = create_session(EmptyMap, 0, 0).sessions
    /\ detached = EmptyMap
    /\ uuid_count = create_session(EmptyMap, 0, 0).uuid_count
    /\ now = 0
    /\ calls = EmptyBag
    /\ streams = [s \in 1..MaxPushStreams |-> FreeStream]
    /\ http = NoOutput

\* Streams of a session and the messages pushed to it.
NextPush ==
    \/ \E session_id \in Issued : QueueMessage(session_id, [type |-> "A"], None)
    \/ \E session_id \in Issued, last_event_id \in PushMarkers :
          GetRequest(Some(session_id), last_event_id)
    \/ \E s \in DOMAIN streams : StreamResume(s)
    \/ \E s \in DOMAIN streams : StreamCancel(s)

SpecPush == InitPush /\ [][NextPush]_vars

\* A session with open streams that is left idle: the clock, the streams, the
\* notifications addressed to the session and the reaper's sweeps.
NextDetach ==
    \/ Idle
    \/ GetRequest(Some(Uuid4(0)), None)
    \/ \E s \in DOMAIN streams : StreamResume(s)
    \/ SendNotification(Uuid4(0), "notifications/message")
    \/ CleanupExpiredSessions

SpecDetach == InitPush /\ [][NextDetach]_vars

\* Two clients' sessions side by side: the first is notified, the second is
\* sent payloads that name it, and one stream at a time is opened on either.
IsolationGetRequest(session_id, last_event_id) ==
    /\ \A s \in DOMAIN streams : streams[s].pc = "free"
    /\ GetRequest(Some(session_id), last_event_id)

NextIsolation ==
    \/ Tick
    \/ ManagerCreateSession
    \/ SendNotification(Uuid4(0), "notifications/message")
    \/ Uuid4(1) \in Issued /\ QueueMessage(Uuid4(1), [type |-> Uuid4(1)], None)
    \/ \E session_id \in Issued \cap {Uuid4(0), Uuid4(1)}, last_event_id \in LastEventIds :
          IsolationGetRequest(session_id, last_event_id)
    \/ \E s \in DOMAIN streams : StreamResume(s)

SpecIsolation == Init /\ [][NextIsolation]_vars

\* One session with one stream that is never cancelled.  The callers of
\* queue_message leave an event id for the connection event of a stream that has
\* not emitted it yet.
LiveHeadroom ==
    \/ \E s \in DOMAIN streams : streams[s].pc = "loop"
    \/ sessions[Uuid4(0)].last_event_id < MaxEvents - 1

LiveQueueMessage(data) ==
    /\ LiveHeadroom
    /\ QueueMessage(Uuid4(0), data, None)

LiveSendNotification ==
    /\ LiveHeadroom
    /\ SendNotification(Uuid4(0), "notifications/message")

LiveGetRequest ==
    /\ \A s \in DOMAIN streams : streams[s].pc = "free"
    /\ GetRequest(Some(Uuid4(0)), None)

NextLive ==
    \/ \E data \in {[type |-> "A"], [type |-> "B"]} : LiveQueueMessage(data)
    \/ LiveSendNotification
    \/ LiveGetRequest
    \/ \E s \in DOMAIN streams : StreamResume(s)

\* The event loop resumes a generator whose yield was consumed or whose wait on
\* the queue ended (by a message or by the 30 s timeout).
SpecLive ==
    /\ InitPush
    /\ [][NextLive]_vars
    /\ \A s \in 1..MaxPushStreams : WF_vars(StreamResume(s))

-----------------------------------------------------------------------------
(* Claims about the dispatcher (checked under SpecDispatch) *)

\* A call handled by handle_request and answered with an envelope.
Answered == http.kind = "legacy"

\* C1: for every call handed to handle_request (method registered or not, handler
\* returning, raising ValueError or raising another Exception) and every id
\* (string, integer, absent), the envelope's id is the request's id, in value and
\* in kind; an absent id stays absent.
C1_IdEchoed ==
    Answered =>
        /\ http.envelope.id = http.request.id
        /\ (http.request.id = None) <=> ("id" \notin DOMAIN http.body[1])
        /\ http.request.id # None => http.body[1]["id"] = http.request.id[1]

C1_Witness ==
    /\ Answered
    /\ http.request.id = Some(JsonInt("1"))
    /\ http.outcome.kind = "raise"
    /\ http.envelope.id = Some(JsonInt("1"))

\* C2: dispatching a method that is not in the table yields an error envelope with
\* code -32601 whose message contains the method name, carries no result, and runs
\* no handler.
C2_MethodNotFound ==
    (Answered /\ http.request.method \notin DOMAIN methods) =>
        /\ http.envelope.error # None
        /\ http.envelope.error[1].code = -32601
        /\ \E i \in DOMAIN http.envelope.error[1].message :
              http.envelope.error[1].message[i] = http.request.method
        /\ http.envelope.result = None
        /\ http.ran = <<>>

C2_Witness ==
    /\ Answered
    /\ http.request.method = "x/y"
    /\ "x/y" \notin DOMAIN methods
    /\ DOMAIN methods # {}
    /\ http.envelope.error[1].code = -32601

\* C3: a registered handler raising ValueError (or a subclass) yields -32602 with
\* the validation message; one raising any other Exception yields -32603 with a
\* generic message and non-null data; in neither case does the exception leave
\* handle_request.
C3_HandlerErrors ==
    /\ http.kind = "aborted" =>
          http.outcome.exc \notin
              {"ValueError", "UnicodeDecodeError", "TypeError", "RuntimeError"}
    /\ (Answered /\ http.outcome.kind = "raise") =>
          /\ http.envelope.error # None
          /\ http.envelope.result = None
          /\ IF http.outcome.exc \in {"ValueError", "UnicodeDecodeError"}
             THEN /\ http.envelope.error[1].code = -32602
                  /\ http.envelope.error[1].message = <<http.outcome.msg>>
             ELSE /\ http.envelope.error[1].code = -32603
                  /\ http.envelope.error[1].message = <<"Internal error">>
                  /\ http.envelope.error[1].data # None
                  /\ "data" \in DOMAIN http.body[1]["error"]

C3_Witness ==
    /\ Answered
    /\ http.outcome.exc = "RuntimeError"
    /\ http.envelope.error[1].code = -32603
    /\ http.envelope.error[1].data # None

\* C4: every envelope built by handle_request, and every serialized body, carries
\* exactly one of result and error, for every handler outcome, a returned None
\* included.
C4_ExactlyOneOfResultError ==
    Answered =>
        /\ (http.envelope.result = None) # (http.envelope.error = None)
        /\ ("result" \in DOMAIN http.body[1]) # ("error" \in DOMAIN http.body[1])

\* C6: a notification (a call without an id) never receives a response body, on
\* POST /mcp and on the legacy paths /, /rpc and /jsonrpc, whatever the method.
C6_NotificationHasNoBody ==
    (http.kind \in {"legacy", "post"} /\ http.request.id = None) =>
        http.body = None

-----------------------------------------------------------------------------
(* Claims about POST /mcp (checked under Spec) *)

\* A step that receives a POST /mcp call, and one that answers a call.
PostReceived == http'.kind = "post_in"
PostAnswered == http'.kind = "post"

\* The call a response answers: a frame in flight, which the step consumes, and
\* whose session the Mcp-Session-Id header names.
AnswersHeldSession ==
    PostAnswered =>
        /\ BagIn(Frame(http'.request, http'.headers.MCP_SESSION_ID), calls)
        /\ calls' = calls (-) SetToBag({Frame(http'.request, http'.headers.MCP_SESSION_ID)})

\* C5: on POST /mcp, for every method and every session header, a call with an id
\* is answered with 200 and a call without an id with 202.
C5_StatusById ==
    http.kind = "post" =>
        http.status = (IF http.request.id # None THEN 200 ELSE 202)

\* C7: a POST initialize without a session header returns a Session-Id header
\* naming a session created by that call, whose id differs from every id issued
\* before; and no two sessions of the registry share an id.
C7_FreshSessionId ==
    /\ [](\A k1, k2 \in DOMAIN sessions :
            /\ sessions[k1].session_id = k1
            /\ k1 # k2 => sessions[k1].session_id # sessions[k2].session_id)
    /\ [][ /\ (PostReceived /\ http'.request.method = "initialize" /\ http'.hdr = None) =>
               /\ http'.session \notin Issued
               /\ http'.session \notin DOMAIN sessions
               /\ http'.session \in DOMAIN sessions'
               /\ BagIn(Frame(http'.request, http'.session), calls')
           /\ AnswersHeldSession]_vars

C7_Witness ==
    /\ http.kind = "post_in"
    /\ http.request.method = "initialize"
    /\ http.hdr = None
    /\ http.session = "u2"
    /\ DOMAIN sessions = {"u1", "u2"}

\* C8: a POST /mcp whose session id is in the registry uses that session: the
\* response's Session-Id header is the supplied id, no session is created or
\* removed, and resolution changes only that session's last_activity.
C8_KnownSessionUsed ==
    [][/\ (PostReceived /\ http'.hdr # None /\ http'.hdr[1] \in DOMAIN sessions) =>
           /\ http'.session = http'.hdr[1]
           /\ BagIn(Frame(http'.request, http'.hdr[1]), calls')
           /\ DOMAIN sessions' = DOMAIN sessions
           /\ uuid_count' = uuid_count
           /\ sessions' = [sessions EXCEPT ![http'.hdr[1]].last_activity = now]
           /\ UNCHANGED <<detached, streams>>
       /\ PostAnswered => UNCHANGED <<sessions, detached, uuid_count, streams>>
       /\ AnswersHeldSession]_vars

C8_Witness ==
    /\ http.kind = "post_in"
    /\ http.hdr = Some("u1")
    /\ http.session = "u1"
    /\ DOMAIN sessions = {"u1", "u2"}
    /\ sessions["u1"].last_activity = 1
    /\ sessions["u2"].last_activity = 0

\* C9: a POST /mcp whose session id is not in the registry does not fail: a
\* replacement session is created, the call is dispatched and answered as any
\* other, and the response's Session-Id header carries the replacement's id, which
\* differs from the supplied one.
C9_UnknownSessionReplaced ==
    [][/\ (PostReceived /\ http'.hdr # None /\ http'.hdr[1] \notin DOMAIN sessions) =>
           /\ http'.session # http'.hdr[1]
           /\ http'.session \notin Issued
           /\ DOMAIN sessions' = DOMAIN sessions \cup {http'.session}
           /\ sessions'[http'.session] = MCPSession(http'.session, now)
           /\ \A k \in DOMAIN sessions : sessions'[k] = sessions[k]
           /\ calls' = calls (+) SetToBag({Frame(http'.request, http'.session)})
       /\ PostAnswered =>
           /\ http'.status \in {200, 202}
           /\ http'.envelope.id = http'.request.id
           /\ http'.status = 200 => http'.body = Some(ModelDump(http'.envelope))
       /\ AnswersHeldSession]_vars

C9_Witness ==
    /\ http.kind = "post_in"
    /\ http.hdr = Some("u1")
    /\ "u1" \notin DOMAIN sessions
    /\ http.session = "u2"
    /\ "u2" \in DOMAIN sessions

-----------------------------------------------------------------------------
(* Claims about GET /mcp (checked under SpecStream) *)

\* C10: a streaming GET without a session header (or with an empty one) is
\* rejected with 400, one with a session id that is not in the registry with 404;
\* in both cases no session is created, no event id is allocated, no stream is
\* opened and the registry is unchanged.
C10_StreamingGetRejected ==
    [][http'.kind = "get" =>
        /\ (http'.hdr = None \/ http'.hdr = Some("")) => http'.status = 400
        /\ (http'.hdr # None /\ http'.hdr # Some("") /\ http'.hdr[1] \notin DOMAIN sessions) =>
              http'.status = 404
        /\ (http'.hdr # None /\ http'.hdr[1] \in DOMAIN sessions) => http'.status = 200
        /\ http'.status \in {400, 404} =>
              UNCHANGED <<sessions, detached, uuid_count, streams, calls>>]_vars

C10_Witness ==
    /\ http.kind = "get"
    /\ http.status = 404
    /\ http.hdr = Some("invalid-session-id")
    /\ DOMAIN sessions = {"u1"}
    /\ \E s \in DOMAIN streams : streams[s].pc = "loop"

-----------------------------------------------------------------------------
(* Claims about event ids (checked under SpecQueue and SpecPush) *)

\* The MCPSession objects alive: registered, or held by a stream only.
SessionObjects ==
    {sessions[k] : k \in DOMAIN sessions} \cup {detached[k] : k \in DOMAIN detached}

\* The event ids of a session's replay log, in log order.
LogIds(session) ==
    [i \in 1..Len(session.messages_sent) |-> ParseInt(session.messages_sent[i].id)]

\* C11: on a freshly created session the first three messages queued receive the
\* event ids 1, 2, 3 in that order, whatever the order in which the concurrent
\* callers run: no id is skipped and none is handed out twice.
C11_QueuedIdsInOrder ==
    \A k \in DOMAIN sessions :
        /\ \A i \in 1..Len(sessions[k].messages_sent) :
              sessions[k].messages_sent[i].id = Str(i)
        /\ sessions[k].last_event_id = Len(sessions[k].messages_sent)
        /\ sessions[k].message_queue = sessions[k].messages_sent

C11_Witness ==
    \E k \in DOMAIN sessions :
        /\ Len(sessions[k].messages_sent) = 3
        /\ sessions[k].messages_sent[1] = MCPMessage("1", [type |-> "C"], None)
        /\ sessions[k].messages_sent[2] = MCPMessage("2", [type |-> "A"], None)
        /\ sessions[k].messages_sent[3] = MCPMessage("3", [type |-> "B"], None)

\* The connection-event ids held by the streams open on session k.
ConnectionIds(k) ==
    {ParseInt(streams[s].event_id[1]) :
        s \in {x \in DOMAIN streams : /\ streams[x].pc # "free"
                                      /\ streams[x].session = k
                                      /\ streams[x].event_id # None}}

\* The streams that take their connection-event id in the step.
Connecting(k) ==
    {s \in DOMAIN streams : /\ streams'[s].pc = "loop"
                            /\ streams[s].pc \in {"start", "replay"}
                            /\ streams[s].session = k}

\* C12: within one session, after any sequence of queue_message calls and stream
\* openings, the event ids allocated are strictly increasing integers from 1: the
\* replay log's ids increase strictly in log order and no id is allocated twice,
\* whether to a queued message or to a connection event.
C12_EventIdsIncrease ==
    /\ [](\A k \in DOMAIN sessions :
            /\ \A i, j \in DOMAIN LogIds(sessions[k]) :
                  i < j => LogIds(sessions[k])[i] < LogIds(sessions[k])[j]
            /\ \A i \in DOMAIN LogIds(sessions[k]) :
                  LogIds(sessions[k])[i] \in 1..sessions[k].last_event_id
            /\ ConnectionIds(k) \subseteq 1..sessions[k].last_event_id
            /\ \A i \in DOMAIN LogIds(sessions[k]) :
                  LogIds(sessions[k])[i] \notin ConnectionIds(k)
            /\ \A s1, s2 \in DOMAIN streams :
                  (/\ s1 # s2
                   /\ streams[s1].pc = "loop" /\ streams[s2].pc = "loop"
                   /\ streams[s1].session = k /\ streams[s2].session = k)
                  => streams[s1].event_id # streams[s2].event_id)
    /\ [][\A k \in DOMAIN sessions \cap DOMAIN sessions' :
            LET old == sessions[k]
                new == sessions'[k]
                queued == Len(new.messages_sent) - Len(old.messages_sent)
            IN /\ queued \in {0, 1}
               /\ new.last_event_id = old.last_event_id + queued + Cardinality(Connecting(k))
               /\ queued + Cardinality(Connecting(k)) <= 1
               /\ queued = 1 =>
                     /\ SubSeq(new.messages_sent, 1, Len(old.messages_sent)) = old.messages_sent
                     /\ LogIds(new)[Len(new.messages_sent)] = old.last_event_id + 1
               /\ \A s \in Connecting(k) :
                     streams'[s].event_id = Some(Str(old.last_event_id + 1))]_vars

C12_Witness ==
    \E k \in DOMAIN sessions :
        /\ LogIds(sessions[k]) = <<1, 3>>
        /\ ConnectionIds(k) = {2}

-----------------------------------------------------------------------------
(* Claims about resumption and delivery (checked under SpecPush) *)

\* The markers messages_after is asked about.
Markers == {"0", "1", "2", "3", "", "not-a-number"}

\* The suffix of a session's log whose ids are greater than number n.
LogSuffixAfter(session, n) ==
    SubSeq(session.messages_sent,
           Len(session.messages_sent)
             - Cardinality({i \in DOMAIN LogIds(session) : LogIds(session)[i] > n}) + 1,
           Len(session.messages_sent))

\* The steps in which stream s starts running, from its open state.
Starts(s) == streams[s].pc = "start" /\ streams'[s].pc \in {"replay", "loop"}

\* C13: messages_after(marker) returns exactly the log's messages whose id is
\* greater than the marker, in log order (all of them for "0"); for a marker that
\* is not a number it returns the empty sequence and raises nothing, so a stream
\* opened with such a marker still opens and replays nothing.
C13_MessagesAfter ==
    /\ [](\A k \in DOMAIN sessions : \A m \in Markers :
            LET r == get_messages_after(sessions[k], m)
                log == sessions[k].messages_sent
            IN IF IsDecimal(m)
               THEN /\ r = LogSuffixAfter(sessions[k], ParseInt(m))
                    /\ \A i \in DOMAIN log :
                          (ParseInt(log[i].id) > ParseInt(m))
                            <=> (\E j \in DOMAIN r : r[j] = log[i])
                    /\ m = "0" => r = log
               ELSE r = <<>>)
    /\ [][ /\ (http'.kind = "get" /\ http'.hdr # None /\ http'.hdr[1] \in DOMAIN sessions) =>
               /\ http'.status = 200
               /\ streams'[http'.stream].pc = "start"
               /\ streams'[http'.stream].last_event_id = http'.last_event_id
           /\ \A s \in DOMAIN streams :
               (/\ Starts(s)
                /\ streams[s].last_event_id # None
                /\ ~IsDecimal(streams[s].last_event_id[1])) =>
                  /\ streams'[s].pc = "loop"
                  /\ Len(streams'[s].emitted) = 1
                  /\ streams'[s].emitted[1] = streams'[s].event_id[1]
                  /\ http'.data = "connection"]_vars

C13_Witness ==
    /\ http.kind = "get"
    /\ http.status = 200
    /\ http.last_event_id = Some("not-a-number")
    /\ streams[http.stream].pc = "start"
    /\ LogIds(sessions[streams[http.stream].session]) = <<1, 3>>
    /\ get_messages_after(sessions[streams[http.stream].session], "1")
         = <<MCPMessage("3", [type |-> "A"], None)>>

\* The ids of a sequence of messages.
Ids(messages) == [i \in DOMAIN messages |-> messages[i].id]

\* The messages a stream opened with marker m replays: those of the log, as it
\* is when the stream starts running, with an id greater than m.
Replayed(session, m) ==
    IF m = None \/ ~IsDecimal(m[1]) THEN <<>>
    ELSE LogSuffixAfter(session, ParseInt(m[1]))

\* C14: a stream opened with a resumption marker m first emits exactly the log's
\* messages with an id greater than m, in ascending id order, and all of them
\* before the connection event and before any newly generated event.
C14_ReplayFirst ==
    [][\A s \in DOMAIN streams :
        /\ Starts(s) =>
              /\ streams'[s].emitted \o Ids(streams'[s].missed)
                   = IF streams'[s].pc = "loop"
                     THEN <<streams'[s].event_id[1]>>
                     ELSE Ids(Replayed(SessionObject(streams[s].session),
                                       streams[s].last_event_id))
              /\ streams'[s].pc = "loop" <=>
                    Replayed(SessionObject(streams[s].session),
                             streams[s].last_event_id) = <<>>
              /\ streams'[s].pc = "replay" => Len(streams'[s].emitted) = 1
        /\ (streams[s].pc = "replay" /\ streams'[s] # streams[s]
                                      /\ streams'[s].pc # "free") =>
              IF streams[s].missed # <<>>
              THEN /\ streams'[s].pc = "replay"
                   /\ streams'[s].emitted = Append(streams[s].emitted, Head(streams[s].missed).id)
                   /\ streams'[s].missed = Tail(streams[s].missed)
                   /\ http'.id = Some(Head(streams[s].missed).id)
                   /\ UNCHANGED sessions
              ELSE /\ streams'[s].pc = "loop"
                   /\ streams'[s].emitted = Append(streams[s].emitted, streams'[s].event_id[1])
                   /\ http'.data = "connection"
        /\ (streams[s].pc \in {"start", "replay"} /\ streams'[s].pc # "free") =>
              SessionObject(streams[s].session)'.message_queue
                 = SessionObject(streams[s].session).message_queue
              \/ streams'[s] = streams[s]]_vars

C14_Witness ==
    \E s \in DOMAIN streams :
        /\ streams[s].pc = "loop"
        /\ streams[s].emitted = <<"2", "3">>
        /\ streams[s].event_id = Some("3")
        /\ LogIds(sessions[streams[s].session]) = <<1, 2>>

\* C15: on any single stream the events that carry an id (replayed messages, the
\* connection event, messages drained from the queue) are emitted in strictly
\* increasing id order, none twice, whatever was queued before or while the
\* stream was opened.
C15_StreamIdsIncrease ==
    \A s \in DOMAIN streams :
        streams[s].pc # "free" =>
            \A i, j \in DOMAIN streams[s].emitted :
                i < j => ParseInt(streams[s].emitted[i]) < ParseInt(streams[s].emitted[j])

\* C16: when several streams are open on one session, every message queued
\* while they are open is delivered exactly once on each of them: a message
\* queued after a stream's connection event and gone from the queue has been
\* emitted on that stream, once.
C16_DeliveredOnEachStream ==
    \A s \in DOMAIN streams :
        streams[s].pc = "loop" =>
            LET session == SessionObject(streams[s].session)
            IN \A i \in DOMAIN session.messages_sent :
                  (/\ ParseInt(session.messages_sent[i].id) > ParseInt(streams[s].event_id[1])
                   /\ \A q \in DOMAIN session.message_queue :
                         session.message_queue[q] # session.messages_sent[i])
                  => Cardinality({e \in DOMAIN streams[s].emitted :
                                     streams[s].emitted[e] = session.messages_sent[i].id}) = 1

\* C19: a keepalive emitted on the idle timeout of the streaming loop carries no
\* event id, is not appended to the log and leaves the session's counter and
\* queue unchanged; the loop then goes on waiting.
C19_KeepaliveIsInert ==
    [][(http'.kind = "sse" /\ "comment" \in DOMAIN http') =>
          /\ http'.id = None
          /\ http'.comment = "keepalive"
          /\ streams[http'.stream].pc = "loop"
          /\ SessionObject(streams[http'.stream].session).message_queue = <<>>
          /\ UNCHANGED <<sessions, detached, streams, uuid_count>>]_vars

C19_Witness ==
    /\ http.kind = "sse"
    /\ "comment" \in DOMAIN http
    /\ streams[http.stream].pc = "loop"
    /\ streams[http.stream].emitted = <<"1", "2">>
    /\ sessions[streams[http.stream].session].last_event_id = 2
    /\ Len(sessions[streams[http.stream].session].messages_sent) = 1

-----------------------------------------------------------------------------
(* Claims about activity and the reaper (checked under SpecStream and SpecSessions) *)

\* The steps in which stream s runs on, to its next yield.
Runs(s) ==
    /\ streams[s].pc \in {"start", "replay", "loop"}
    /\ http'.kind = "sse"
    /\ http'.stream = s
    /\ streams'[s].pc # "free"

\* C18: every read or write that touches a session refreshes its last_activity:
\* the registry lookup, queue_message, messages_after, the allocation of a
\* stream's connection-event id and a stream's draining of a message each leave
\* last_activity at the time of the operation.
C18_ActivityRefreshed ==
    [][/\ (http'.kind = "get" /\ http'.status = 200) =>
             sessions'[http'.hdr[1]].last_activity = now
       /\ \A k \in DOMAIN sessions \cap DOMAIN sessions' :
             Len(sessions'[k].messages_sent) > Len(sessions[k].messages_sent) =>
                sessions'[k].last_activity = now
       /\ \A s \in DOMAIN streams :
             (Runs(s) /\ "comment" \notin DOMAIN http') =>
                SessionObject(streams[s].session)'.last_activity = now]_vars

\* C17: a sweep of the reaper removes exactly the sessions idle for longer than
\* the timeout: each of them is absent from the registry afterwards, and each
\* session active within the timeout is still there, its state unchanged.
C17_SweepRemovesExpired ==
    [][http'.kind = "sweep" =>
        /\ http'.at = now
        /\ DOMAIN sessions' \subseteq DOMAIN sessions
        /\ \A k \in DOMAIN sessions :
              IF now - sessions[k].last_activity > session_timeout
              THEN k \notin DOMAIN sessions'
              ELSE k \in DOMAIN sessions' /\ sessions'[k] = sessions[k]
        /\ UNCHANGED <<uuid_count, streams, now>>]_vars

C17_Witness ==
    /\ http.kind = "sweep"
    /\ http.at = now
    /\ uuid_count = 2
    /\ DOMAIN sessions = {"u2"}
    /\ now - sessions["u2"].last_activity = session_timeout

\* C20: send_notification to a session id that is not in the registry does
\* nothing: it raises nothing, creates no session, allocates no event id and
\* changes no session's log or queue; for a registered session it enqueues
\* exactly one Call Envelope without an id, through queue_message.
C20_NotificationQueuedOrDropped ==
    [][http'.kind = "notify" =>
        IF http'.session_id \notin DOMAIN sessions
        THEN UNCHANGED <<sessions, detached, uuid_count, streams, calls>>
        ELSE LET old == sessions[http'.session_id]
                 new == sessions'[http'.session_id]
                 message == MCPMessage(Str(old.last_event_id + 1),
                                       [jsonrpc |-> "2.0", method |-> http'.method,
                                        params |-> EmptyMap],
                                       Some("message"))
             IN /\ DOMAIN sessions' = DOMAIN sessions
                /\ \A k \in DOMAIN sessions \ {http'.session_id} : sessions'[k] = sessions[k]
                /\ "id" \notin DOMAIN message.data
                /\ new.messages_sent = Append(old.messages_sent, message)
                /\ new.message_queue = Append(old.message_queue, message)
                /\ new.last_event_id = old.last_event_id + 1
                /\ new.last_activity = now
                /\ new.session_id = old.session_id
                /\ UNCHANGED <<detached, uuid_count, streams, calls>>]_vars

C20_Witness ==
    /\ http.kind = "notify"
    /\ http.session_id = "u1"
    /\ DOMAIN sessions = {"u2"}
    /\ Len(sessions["u2"].messages_sent) = 1
    /\ sessions["u2"].messages_sent[1].data.method = "notifications/message"

-----------------------------------------------------------------------------
(* Claims about the endpoints (checked under SpecVersion, Spec, SpecRegistration, SpecLegacy) *)

\* C21: the Protocol-Version header does not influence a POST /mcp call: two
\* calls that differ in that header only (matching, mismatching, absent) get the
\* same status, body and response headers and leave the same registry and
\* session state.
C21_VersionHeaderIgnored ==
    /\ [](\A hdr \in SessionHeaders : \A v1, v2 \in ProtocolVersions :
            PostEntry(sessions, uuid_count, now, hdr, v1).resolved
               = PostEntry(sessions, uuid_count, now, hdr, v2).resolved)
    /\ [][ /\ PostReceived =>
               LET absent == PostEntry(sessions, uuid_count, now, http'.hdr, None).resolved
               IN /\ sessions' = absent.sessions
                  /\ uuid_count' = absent.uuid_count
                  /\ http'.session = absent.session
                  /\ calls' = calls (+) SetToBag({Frame(http'.request, absent.session)})
                  /\ http'.warned <=> (/\ http'.version # None
                                       /\ http'.version # Some(MCP_PROTOCOL_VERSION))
           /\ PostAnswered =>
               /\ http' = PostResponse(http'.request, http'.outcome,
                                       handle_request(methods, http'.request, http'.outcome),
                                       http'.headers.MCP_SESSION_ID)
               /\ http'.headers.MCP_PROTOCOL_VERSION = MCP_PROTOCOL_VERSION
               /\ UNCHANGED <<sessions, detached, uuid_count>>
           /\ AnswersHeldSession]_vars

C21_Witness ==
    /\ http.kind = "post_in"
    /\ http.version = Some("2025-03-26")
    /\ http.warned
    /\ http.hdr = Some("u1")
    /\ http.session = "u1"
    /\ uuid_count = 1

C24_RegistrationLastWriterWins ==
    /\ [](\A name \in DispatchNames : \A h1, h2 \in DispatchHandlers :
            LET once == register_method(methods, name, h1)
            IN /\ register_method(once, name, h1) = once
               /\ register_method(once, name, h2) = register_method(methods, name, h2)
               /\ once[name] = h1
               /\ DOMAIN once = DOMAIN methods \cup {name}
               /\ \A other \in DOMAIN methods \ {name} : once[other] = methods[other])
    /\ [](\A name \in ToolNames : \A h1, h2 \in ToolHandlers : \A d1, d2 \in ToolDescriptions :
            LET once == register_tool(tools, name, d1, "object", h1)
            IN /\ register_tool(once, name, d1, "object", h1) = once
               /\ register_tool(once, name, d2, "object", h2)
                    = register_tool(tools, name, d2, "object", h2)
               /\ once[name].handler = h1
               /\ once[name].schema.description = d1
               /\ once[name].schema.name = name
               /\ DOMAIN once = DOMAIN tools \cup {name}
               /\ \A other \in DOMAIN tools \ {name} : once[other] = tools[other])
    /\ [][ /\ methods' # methods =>
               \E name \in DispatchNames, h \in DispatchHandlers :
                   /\ methods' = [k \in DOMAIN methods \cup {name} |->
                                    IF k = name THEN h ELSE methods[k]]
                   /\ tools' = tools
           /\ tools' # tools =>
               \E name \in ToolNames, h \in ToolHandlers, d \in ToolDescriptions :
                   /\ tools' = [k \in DOMAIN tools \cup {name} |->
                                  IF k = name
                                  THEN [handler |-> h, schema |-> ToolSchema(name, d, "object")]
                                  ELSE tools[k]]
                   /\ methods' = methods]_vars

C24_Witness ==
    /\ DOMAIN methods = {"ping", "tools/call"}
    /\ methods["ping"] = "custom"
    /\ methods["tools/call"] = "tools_call"
    /\ DOMAIN tools = {"create_table"}
    /\ tools["create_table"].handler = "insert_record"

\* C25: a call on a legacy path (/, /rpc, /jsonrpc) bypasses the sessions: it
\* creates, looks up, touches and deletes no session, allocates no event id, and
\* its answer is the dispatcher's envelope for the call.
C25_LegacyBypassesSessions ==
    [][http'.kind \in {"legacy", "aborted"} =>
         /\ http'.path \in LegacyPaths
         /\ UNCHANGED <<sessions, detached, uuid_count, calls, streams, reaper>>
         /\ http'.kind = "legacy" =>
               /\ handle_request(methods, http'.request, http'.outcome).response
                     = Some(http'.envelope)
               /\ http'.body = Some(ModelDump(http'.envelope))
               /\ http'.status = 200
               /\ "headers" \notin DOMAIN http']_vars

C25_Witness ==
    /\ http.kind = "legacy"
    /\ http.path = "/rpc"
    /\ http.request.method = "initialize"
    /\ http.envelope.result # None
    /\ uuid_count = 2
    /\ \E k \in DOMAIN sessions : sessions[k].last_event_id = 1 /\ sessions[k].last_activity < now

C27_DisconnectEndsStream ==
    [][ /\ \A s \in DOMAIN streams :
              (streams[s].pc # "free" /\ streams'[s].pc = "free") =>
                 /\ http' = NoOutput
                 /\ sessions' = sessions
                 /\ \A sid \in DOMAIN detached' : detached'[sid] = detached[sid]
                 /\ \A s2 \in DOMAIN streams \ {s} : streams'[s2] = streams[s2]
        /\ \A k \in DOMAIN sessions \cap DOMAIN sessions' :
              Len(sessions'[k].message_queue) < Len(sessions[k].message_queue) =>
                 /\ http'.kind = "sse"
                 /\ streams[http'.stream].pc = "loop"
                 /\ streams'[http'.stream].pc = "loop"
                 /\ streams[http'.stream].session = k
                 /\ http'.id = Some(Head(sessions[k].message_queue).id)]_vars

C27_Witness ==
    /\ http = NoOutput
    /\ streams[1].pc = "free"
    /\ streams[2].pc = "loop"
    /\ Len(sessions["u1"].message_queue) = 1
    /\ sessions["u1"].last_event_id = 3

\* C30: every event that was emitted on a stream with an id, the connection
\* event included, is in the replay log of the stream's session, and the log
\* only grows at its end.
C30_EmittedEventsAreLogged ==
    /\ [](\A s \in DOMAIN streams :
            streams[s].pc # "free" =>
               \A i \in DOMAIN streams[s].emitted :
                  \E j \in DOMAIN SessionObject(streams[s].session).messages_sent :
                     SessionObject(streams[s].session).messages_sent[j].id
                        = streams[s].emitted[i])
    /\ [][\A k \in DOMAIN sessions \cap DOMAIN sessions' :
            /\ Len(sessions'[k].messages_sent) >= Len(sessions[k].messages_sent)
            /\ SubSeq(sessions'[k].messages_sent, 1, Len(sessions[k].messages_sent))
                  = sessions[k].messages_sent]_vars

\* C28: the registry's operations are atomic under every interleaving of POSTs,
\* streaming GETs, notifications, deletions and sweeps: a session leaves the
\* registry only through a deletion of it or a sweep that finds it expired, an
\* id that left never comes back, a new entry is a fresh id and disturbs no
\* other entry, a sweep removes every expired session and no other, and every
\* step leaves the registry as one operation applied to the registry before it.
C28_RegistryAtomic ==
    [][ /\ \A k \in DOMAIN sessions \ DOMAIN sessions' :
              \/ /\ http'.kind = "sweep"
                 /\ now - sessions[k].last_activity > session_timeout
              \/ /\ http' = NoOutput
                 /\ sessions' = delete_session(sessions, k)
        /\ \A k \in Issued \ DOMAIN sessions : k \notin DOMAIN sessions'
        /\ \A k \in DOMAIN sessions' \ DOMAIN sessions :
              /\ k = Uuid4(uuid_count)
              /\ uuid_count' = uuid_count + 1
              /\ sessions'[k] = MCPSession(k, now)
              /\ DOMAIN sessions \subseteq DOMAIN sessions'
              /\ \A j \in DOMAIN sessions : sessions'[j] = sessions[j]
        /\ http'.kind = "sweep" =>
              /\ DOMAIN sessions' = {k \in DOMAIN sessions :
                                        ~(now - sessions[k].last_activity > session_timeout)}
              /\ \A k \in DOMAIN sessions' : sessions'[k] = sessions[k]
        /\ \/ sessions' = sessions
           \/ sessions' = create_session(sessions, uuid_count, now).sessions
           \/ sessions' = cleanup_expired_sessions(sessions, now)
           \/ \E k \in Issued :
                 \/ sessions' = get_session(sessions, k, now).sessions
                 \/ sessions' = delete_session(sessions, k)
                 \/ sessions' = send_notification(sessions, k, "notifications/message", now)
      ]_vars

C28_Witness ==
    /\ http.kind = "sweep"
    /\ uuid_count = 2
    /\ DOMAIN sessions = {"u2"}
    /\ calls # EmptyBag
    /\ streams[1].pc # "free"
    /\ streams[1].session = "u1"
    /\ "u1" \in DOMAIN detached

\* C29: unrelated sessions are not serialized behind each other: while the
\* handler of one session's POST is in its blocking I/O, a stream of another
\* session can emit its next event and a call without a session (or of another
\* session) can be taken up.
C29_OtherSessionsProceed ==
    \A frame \in {f \in BagToSet(calls) : f.request.method = "tools/call"} :
       /\ \A s \in DOMAIN streams :
             (/\ streams[s].pc # "free"
              /\ streams[s].session # frame.session
              /\ SessionObject(streams[s].session).last_event_id < MaxEvents) =>
                 ENABLED LoopStreamResume(s)
       /\ (BagCardinality(calls) < MaxCalls /\ uuid_count < MaxSessions) =>
             ENABLED LoopPostBegin(JSONRPCRequest("ping", Some(JsonInt("1"))), None)

\* C31: every session that enters the registry (by a first-contact POST, by the
\* replacement of an unknown session id, or by create_session called directly)
\* starts with event counter 0, an empty replay log and an empty queue, under a
\* fresh id: a replacement takes over neither the id nor the messages of the
\* session it replaces.
C31_SessionsStartEmpty ==
    [][\A k \in DOMAIN sessions' \ DOMAIN sessions :
          /\ sessions'[k].session_id = k
          /\ sessions'[k].last_event_id = 0
          /\ sessions'[k].messages_sent = <<>>
          /\ sessions'[k].message_queue = <<>>
          /\ sessions'[k].last_activity = now
          /\ k \notin Issued
          /\ k \notin DOMAIN detached
          /\ (http'.kind = "post_in" /\ http'.hdr # None) => k # http'.hdr[1]]_vars

C31_Witness ==
    /\ http.kind = "post_in"
    /\ http.hdr = Some("u1")
    /\ http.session = "u2"
    /\ "u1" \notin DOMAIN sessions
    /\ "u1" \in DOMAIN detached
    /\ detached["u1"].last_event_id = 2
    /\ Len(detached["u1"].messages_sent) = 2
    /\ sessions["u2"].last_event_id = 0
    /\ sessions["u2"].messages_sent = <<>>

\* C32: on a session with one open stream that is never cancelled, every message
\* enqueued by queue_message or send_notification is eventually emitted on that
\* stream, under fair scheduling of the stream's generator; an emission from the
\* queue carries the message's own id, tag and data.
C32_QueuedIsEventuallyEmitted ==
    /\ \A i \in 1..(MaxEvents + 1) :
          (/\ streams[1].pc # "free"
           /\ \E j \in DOMAIN SessionObject(Uuid4(0)).messages_sent :
                 SessionObject(Uuid4(0)).messages_sent[j].id = Str(i))
            ~> (/\ streams[1].pc # "free"
                /\ \E n \in DOMAIN streams[1].emitted : streams[1].emitted[n] = Str(i))
    /\ [][\A k \in DOMAIN sessions :
            Len(sessions'[k].message_queue) < Len(sessions[k].message_queue) =>
               /\ sessions'[k].message_queue = Tail(sessions[k].message_queue)
               /\ http'.id = Some(Head(sessions[k].message_queue).id)
               /\ http'.data = Head(sessions[k].message_queue).data
               /\ http'.event = (IF Head(sessions[k].message_queue).event = None
                                 THEN "message"
                                 ELSE Head(sessions[k].message_queue).event[1])
               /\ streams'[http'.stream].emitted
                    = Append(streams[http'.stream].emitted,
                             Head(sessions[k].message_queue).id)]_vars

C32_Witness ==
    /\ streams[1].pc = "loop"
    /\ streams[1].emitted = <<"2", "1", "3">>
    /\ http.kind = "sse"
    /\ http.id = Some("3")
    /\ http.event = "message"
    /\ http.data = Notification("notifications/message")
    /\ sessions["u1"].message_queue = <<>>

\* C33: every POST /mcp call with a registered method runs that method's handler
\* exactly once, a notification (answered 202 without a body) included, and a
\* call with an unregistered method runs no handler; taking up a call runs
\* nothing, and each call is answered once.
C33_HandlerRunsOnce ==
    [][ /\ http'.kind \in {"post", "aborted"} =>
              /\ http'.ran = (IF http'.request.method \in DOMAIN methods
                              THEN <<methods[http'.request.method]>>
                              ELSE <<>>)
              /\ http'.request.method \in DOMAIN methods => http'.outcome # NoCall
              /\ http'.request.method \notin DOMAIN methods => http'.outcome = NoCall
              /\ \E frame \in BagToSet(calls) :
                    /\ frame.request = http'.request
                    /\ calls' = calls (-) SetToBag({frame})
        /\ http'.kind = "post_in" =>
              /\ "ran" \notin DOMAIN http'
              /\ BagCardinality(calls') = BagCardinality(calls) + 1
      ]_vars

C33_Witness ==
    /\ http.kind = "post"
    /\ http.status = 202
    /\ http.body = None
    /\ http.request.id = None
    /\ http.request.method = "tools/call"
    /\ http.ran = <<"tools_call">>
    /\ http.outcome = Return(Some("content"))

\* C34: the session of a POST /mcp is resolved before the dispatch and whatever
\* its outcome: a call without a known session id adds exactly one session, a
\* call with a known one adds none, the answer (a result, an error envelope, a
\* 202 for a notification, or no answer) changes no registry entry, and a
\* session leaves the registry only through delete_session or a sweep.
C34_ResolutionBeforeDispatch ==
    [][ /\ (/\ http'.kind = "post_in"
            /\ (http'.hdr = None \/ http'.hdr[1] \notin DOMAIN sessions)) =>
               /\ Cardinality(DOMAIN sessions') = Cardinality(DOMAIN sessions) + 1
               /\ DOMAIN sessions' = DOMAIN sessions \cup {http'.session}
               /\ http'.session \notin DOMAIN sessions
        /\ (/\ http'.kind = "post_in"
            /\ http'.hdr # None
            /\ http'.hdr[1] \in DOMAIN sessions) =>
               DOMAIN sessions' = DOMAIN sessions
        /\ http'.kind \in {"post", "aborted"} =>
               /\ sessions' = sessions
               /\ uuid_count' = uuid_count
        /\ \A k \in DOMAIN sessions \ DOMAIN sessions' :
               \/ http'.kind = "sweep"
               \/ http' = NoOutput /\ sessions' = delete_session(sessions, k)
      ]_vars

C34_Witness ==
    /\ http.kind = "post"
    /\ http.request.id = None
    /\ http.request.method = "x/y"
    /\ http.status = 202
    /\ http.envelope.error # None
    /\ http.headers.MCP_SESSION_ID = "u2"
    /\ DOMAIN sessions = {"u1", "u2"}
    /\ sessions["u2"].last_activity = 1
    /\ sessions["u1"].last_activity = 0

\* Sequence `q` is `log` with some of its elements left out.
IsSubsequence(q, log) ==
    \E f \in [DOMAIN q -> DOMAIN log] :
       /\ \A i \in DOMAIN q : log[f[i]] = q[i]
       /\ \A i, j \in DOMAIN q : i < j => f[i] < f[j]

\* C35: in every reachable state a session's queue is a subsequence of its
\* replay log, in the log's order: every pending message is in the log, and
\* the pending messages are in strictly increasing order of event id.
C35_QueueWithinLog ==
    \A session \in SessionObjects :
       /\ IsSubsequence(session.message_queue, session.messages_sent)
       /\ \A i, j \in DOMAIN session.message_queue :
             i < j => ParseInt(session.message_queue[i].id)
                        < ParseInt(session.message_queue[j].id)

C35_Witness ==
    /\ Ids(sessions["u1"].messages_sent) = <<"1", "3">>
    /\ Ids(sessions["u1"].message_queue) = <<"3">>
    /\ streams[1].pc = "loop"
    /\ streams[1].emitted = <<"2", "1">>

\* C36: queued messages are conserved under any interleaving of queue_message
\* calls and streams of a session: a message leaves the queue only as its head
\* and into exactly one stream, which emits it; a stream in its loop that emits
\* an event took it from the queue; the queue grows only by a new message at its
\* end; and a logged message that has left the queue never returns to it, so
\* each message is pending or was taken by exactly one stream.
C36_QueuedMessagesConserved ==
    [][\A k \in DOMAIN sessions \cap DOMAIN sessions' :
          LET q == sessions[k].message_queue
              q2 == sessions'[k].message_queue
          IN /\ Len(q2) < Len(q) =>
                   /\ q2 = Tail(q)
                   /\ http'.kind = "sse"
                   /\ streams[http'.stream].session = k
                   /\ streams'[http'.stream].emitted
                         = Append(streams[http'.stream].emitted, Head(q).id)
                   /\ \A s \in DOMAIN streams \ {http'.stream} : streams'[s] = streams[s]
             /\ Len(q2) > Len(q) =>
                   /\ q2 = Append(q, q2[Len(q2)])
                   /\ sessions'[k].messages_sent
                         = Append(sessions[k].messages_sent, q2[Len(q2)])
                   /\ \A i \in DOMAIN sessions[k].messages_sent :
                         sessions[k].messages_sent[i].id # q2[Len(q2)].id
             /\ Len(q2) = Len(q) => q2 = q
             /\ \A s \in DOMAIN streams :
                   (/\ streams[s].pc = "loop"
                    /\ streams[s].session = k
                    /\ streams'[s].pc = "loop"
                    /\ Len(streams'[s].emitted) > Len(streams[s].emitted)) =>
                       /\ q # <<>>
                       /\ q2 = Tail(q)
                       /\ streams'[s].emitted = Append(streams[s].emitted, Head(q).id)
             /\ \A i \in DOMAIN sessions[k].messages_sent :
                   (\A n \in DOMAIN q : q[n] # sessions[k].messages_sent[i]) =>
                      \A n \in DOMAIN q2 : q2[n] # sessions[k].messages_sent[i]]_vars

C36_Witness ==
    /\ http.kind = "sse"
    /\ http.stream = 1
    /\ http.id = Some("3")
    /\ streams[1].pc = "loop"
    /\ streams[1].emitted = <<"1", "3">>
    /\ streams[2].pc = "loop"
    /\ streams[2].emitted = <<"2">>
    /\ sessions["u1"].message_queue = <<>>
    /\ Ids(sessions["u1"].messages_sent) = <<"3">>

\* C37: an open stream does not keep its session alive: a stream's steps in its
\* loop (taking a message, emitting a keepalive) leave last_activity as it was,
\* a sweep removes an expired session whether or not a stream is open on it,
\* the stream then keeps running on the session object it holds, and a
\* notification to that session id is dropped: the object's log and queue never
\* grow again.
C37_StreamDoesNotKeepAlive ==
    [][ /\ \A s \in DOMAIN streams :
              (streams[s].pc = "loop" /\ http'.kind = "sse" /\ http'.stream = s) =>
                 SessionObject(streams[s].session)'.last_activity
                    = SessionObject(streams[s].session).last_activity
        /\ http'.kind = "sweep" =>
              /\ \A k \in DOMAIN sessions :
                    now - sessions[k].last_activity > session_timeout =>
                       /\ k \notin DOMAIN sessions'
                       /\ Referenced(streams, k) =>
                             /\ k \in DOMAIN detached'
                             /\ detached'[k] = sessions[k]
              /\ streams' = streams
        /\ \A k \in DOMAIN detached :
              /\ k \in DOMAIN detached'
              /\ k \notin DOMAIN sessions'
              /\ detached'[k].messages_sent = detached[k].messages_sent
              /\ Len(detached'[k].message_queue) <= Len(detached[k].message_queue)
              /\ (http'.kind = "notify" /\ http'.session_id = k) =>
                    /\ detached' = detached
                    /\ sessions' = sessions
      ]_vars

C37_Witness ==
    /\ http = KeepaliveEvent(1)
    /\ streams[1].pc = "loop"
    /\ streams[1].session = "u1"
    /\ streams[1].emitted = <<"1", "2">>
    /\ "u1" \in DOMAIN detached
    /\ "u1" \notin DOMAIN sessions
    /\ detached["u1"].message_queue = <<>>
    /\ now = 2

\* C38: the session id header of a POST /mcp answer names a session that is in
\* the registry when the answer is produced, also when delete_session or a
\* sweep ran while the call's handler was suspended.
C38_AnswerNamesRegisteredSession ==
    http.kind = "post" => http.headers.MCP_SESSION_ID \in DOMAIN sessions

\* C39: sessions are isolated from each other: a step changes at most one
\* session; a notification or a stream opening changes no session but the one
\* it names, and a stream's step none but the session it was opened on; and an
\* event a stream emits with a message's payload is a message of its own
\* session's log, never one queued on another session.
C39_SessionsIsolated ==
    [][ /\ \A k1, k2 \in DOMAIN sessions \cap DOMAIN sessions' :
              (k1 # k2 /\ sessions'[k1] # sessions[k1]) => sessions'[k2] = sessions[k2]
        /\ http'.kind = "notify" =>
              \A k \in DOMAIN sessions \ {http'.session_id} : sessions'[k] = sessions[k]
        /\ (http'.kind = "get" /\ http'.hdr # None) =>
              \A k \in DOMAIN sessions \ {http'.hdr[1]} : sessions'[k] = sessions[k]
        /\ http'.kind = "sse" =>
              /\ \A k \in DOMAIN sessions \ {streams[http'.stream].session} :
                    sessions'[k] = sessions[k]
              /\ (/\ "comment" \notin DOMAIN http'
                  /\ \/ streams[http'.stream].pc = "loop"
                     \/ streams'[http'.stream].pc = "replay") =>
                    \E i \in DOMAIN SessionObject(streams[http'.stream].session).messages_sent :
                       LET m == SessionObject(streams[http'.stream].session).messages_sent[i]
                       IN /\ http'.id = Some(m.id)
                          /\ http'.data = m.data
                          /\ m.data = (IF streams[http'.stream].session = Uuid4(0)
                                       THEN Notification("notifications/message")
                                       ELSE [type |-> streams[http'.stream].session])
      ]_vars

C39_Witness ==
    /\ http.kind = "sse"
    /\ http.id = Some("1")
    /\ streams[1].pc = "replay"
    /\ streams[1].session = "u2"
    /\ streams[1].emitted = <<"1">>
    /\ sessions["u2"].messages_sent[1].data = [type |-> "u2"]
    /\ Len(sessions["u1"].message_queue) = 2
    /\ sessions["u1"].messages_sent[1].data = Notification("notifications/message")
    /\ sessions["u1"].last_activity = 0
    /\ now = 1

\* C40: delete_session is total and idempotent: for an id that is not in the
\* registry it changes nothing, for a present id it removes that entry and
\* leaves every other entry as it was, deleting twice equals deleting once, and
\* afterwards get_session of the id finds nothing and changes nothing.
C40_DeleteIdempotent ==
    /\ [](\A k \in Issued \cup {"invalid-session-id", ""} :
            LET once == delete_session(sessions, k)
            IN /\ k \notin DOMAIN sessions => once = sessions
               /\ DOMAIN once = DOMAIN sessions \ {k}
               /\ \A j \in DOMAIN once : once[j] = sessions[j]
               /\ delete_session(once, k) = once
               /\ get_session(once, k, now).session = None
               /\ get_session(once, k, now).sessions = once)
    /\ [][(http' = NoOutput /\ DOMAIN sessions' # DOMAIN sessions
                            /\ DOMAIN sessions' \subseteq DOMAIN sessions) =>
             /\ \E k \in DOMAIN sessions : sessions' = delete_session(sessions, k)
             /\ Cardinality(DOMAIN sessions') = Cardinality(DOMAIN sessions) - 1
             /\ UNCHANGED <<uuid_count, calls, streams, now>>]_vars

C40_Witness ==
    /\ http = NoOutput
    /\ uuid_count = 2
    /\ DOMAIN sessions = {"u1"}
    /\ sessions["u1"].last_event_id = 2
    /\ now = 0
    /\ BagToSet(calls) = {Frame(JSONRPCRequest("ping", Some(JsonInt("1"))), "u2")}

====
